---- MODULE Spec2Model ----
(***************************************************************************)
(* A model of mcphub's dual-backend persistence adapters and of its        *)
(* semantic tool-search subsystem (embedding provider, vector record       *)
(* store, schema reconciler, search orchestrator and their controllers).   *)
(*                                                                         *)
(* Six specifications share the module:                                    *)
(*   SpecAdapter   the server-config / user / market adapters, one action  *)
(*                 per adapter call;                                       *)
(*   SpecVector    ingest, reconciliation, search and the rebuild          *)
(*                 controllers with the flag on, one action per awaited    *)
(*                 statement;                                              *)
(*   SpecDisabled  adapter calls and vector requests with the flag off;    *)
(*   SpecSearch    the vector repository called directly;                  *)
(*   SpecEmbed     the embedding provider called directly;                 *)
(*   SpecMigration the one-time migration of the file-backed records.      *)
(* The database, the embedding service and the settings file are external  *)
(* collaborators: every statement sent to one of them either completes or  *)
(* throws, and the choice is an input of the action.                       *)
(***************************************************************************)
EXTENDS Integers, Sequences, FiniteSets, TLC

VARIABLES
    enabled,        \* DatabaseConfig.enabled, the global routing flag
    migrationCompleted, \* DatabaseConfig.migrationCompleted
    connected,      \* AppDataSource.isInitialized
    dbServers,      \* table server_configs: a function from the names it holds
    fileServers,    \* file-backed server list, likewise
    dbUsers,        \* table users
    fileUsers,      \* settings.users
    dbMarket,       \* table market_servers: the names it holds
    dbGroups,       \* table groups with group_server_mappings: a function
                    \* from the ids it holds to each group's servers
    ret,            \* outcome of the adapter call the last step completed
    lastDbAdd,      \* name whose addServer last completed in the database,
                    \* kept while only getServersInfo calls follow it
    apiKey,         \* openai.apiKey is configured
    width,          \* declared width of column embedding (0: none declared)
    index,          \* kind of idx_vector_embeddings_embedding ("none": absent)
    rows,           \* table vector_embeddings
    pc,             \* the statement the running request is about to execute
    call,           \* the running request's locals
    resp,           \* what the last finished request handed to its caller
    hist            \* observations of the running or last request

adapterVars == <<enabled, migrationCompleted, connected, dbServers, fileServers, dbUsers,
                 fileUsers, dbMarket, dbGroups, ret, lastDbAdd>>

vectorVars == <<apiKey, width, index, rows, pc, call, resp, hist>>

vars == <<adapterVars, vectorVars>>

----------------------------------------------------------------------------
(* Inputs *)


None == "none"

ServerNames == {"weather"}
UserNames == {"bob"}
Passwords == {"pw1"}

\* ServerConfig.enabled as the caller passes it: <<b>>, or <<>> when left out
ConfigEnabled == {<<FALSE>>, <<>>}

\* which of the n database statements of a call throws (0: none does)
FailPoints(n) == 0..n

----------------------------------------------------------------------------
(* The routing flag *)

isEnabledFor == enabled

shouldUseDatabaseMutantAlways == TRUE

shouldUseDatabase == isEnabledFor

\* a statement sent to the database throws when the data source is not
\* initialized, or when the environment makes statement number k fail
Throws(k, fail) == (~connected) \/ fail = k

\* values an operation can return besides records and lists
NoValue == [none |-> TRUE]
Null == [null |-> TRUE]
Undef == [undefined |-> TRUE]
Bool(b) == [bool |-> b]
List(S) == [list |-> S]

\* a table or a settings section is a function from the keys it holds
Put(t, k, row) == [x \in DOMAIN t \cup {k} |-> IF x = k THEN row ELSE t[x]]
Remove(t, k) == [x \in DOMAIN t \ {k} |-> t[x]]
Empty == [x \in {} |-> x]

\* what a database attempt hands back to the adapter's try block
Threw(db, calls) == [threw |-> TRUE, db |-> db, value |-> NoValue, calls |-> calls]
Done(db, value, calls) == [threw |-> FALSE, db |-> db, value |-> value, calls |-> calls]

\* what a file-backed implementation hands back
FileThrew(file) == [threw |-> TRUE, file |-> file, value |-> NoValue]
FileDone(file, value) == [threw |-> FALSE, file |-> file, value |-> value]

----------------------------------------------------------------------------
(* File-backed implementations (mcpService, models/User, marketService).   *)
(* `ff` is the environment's choice that the settings file cannot be       *)
(* read or written.                                                        *)

\* config.enabled !== undefined ? config.enabled : true
EnabledOf(cfgEnabled) == IF cfgEnabled = <<>> THEN TRUE ELSE cfgEnabled[1]

getServersInfoFile(file, ff) ==
    IF ff THEN FileThrew(file)
    ELSE FileDone(file, List({[name |-> n, status |-> file[n].status, tools |-> file[n].tools,
                               enabled |-> file[n].enabled] : n \in DOMAIN file}))

getServerConfigByNameFile(file, name, ff) ==
    IF ff THEN FileThrew(file)
    ELSE FileDone(file, IF name \notin DOMAIN file THEN Null
                        ELSE [shape |-> "config", enabled |-> file[name].enabled])

addServerFile(file, name, cfgEnabled, ff) ==
    IF ff THEN FileThrew(file)
    ELSE IF name \in DOMAIN file
         THEN FileDone(file, [success |-> FALSE, message |-> "Server name already exists"])
         ELSE FileDone(Put(file, name, [enabled |-> EnabledOf(cfgEnabled),
                                        status |-> "disconnected", tools |-> <<>>]),
                       [success |-> TRUE, message |-> "Server added successfully"])

updateMcpServerFile(file, name, cfgEnabled, ff) ==
    IF ff THEN FileThrew(file)
    ELSE IF name \notin DOMAIN file
         THEN FileDone(file, [success |-> FALSE, message |-> "Server not found"])
         ELSE FileDone([file EXCEPT ![name].enabled = EnabledOf(cfgEnabled)],
                       [success |-> TRUE, message |-> "Server updated successfully"])

removeServerFile(file, name, ff) ==
    IF ff THEN FileThrew(file)
    ELSE IF name \notin DOMAIN file
         THEN FileDone(file, [success |-> FALSE, message |-> "Server not found"])
         ELSE FileDone(Remove(file, name),
                       [success |-> TRUE, message |-> "Server removed successfully"])

toggleServerStatusFile(file, name, en, ff) ==
    IF ff THEN FileThrew(file)
    ELSE IF name \notin DOMAIN file
         THEN FileDone(file, [success |-> FALSE, message |-> "Server not found"])
         ELSE FileDone([file EXCEPT ![name].enabled = en],
                       [success |-> TRUE,
                        message |-> IF en THEN "Server enabled successfully"
                                    ELSE "Server disabled successfully"])

\* bcrypt.hash: the stored password is not the plain one
Hash(p) == <<"bcrypt", p>>

UserShape(u, row) == [username |-> u, password |-> row.password, isAdmin |-> row.isAdmin]

getUsersFile(file, ff) ==
    IF ff THEN FileThrew(file)
    ELSE FileDone(file, List({UserShape(u, file[u]) : u \in DOMAIN file}))

findUserByUsernameFile(file, u, ff) ==
    IF ff THEN FileThrew(file)
    ELSE FileDone(file, IF u \notin DOMAIN file THEN Undef ELSE UserShape(u, file[u]))

createUserFile(file, u, pw, admin, ff) ==
    IF ff THEN FileThrew(file)
    ELSE IF u \in DOMAIN file THEN FileDone(file, Null)
         ELSE FileDone(Put(file, u, [password |-> Hash(pw), isAdmin |-> admin]),
                       [username |-> u, password |-> Hash(pw), isAdmin |-> admin])

updateUserPasswordFile(file, u, pw, ff) ==
    IF ff THEN FileThrew(file)
    ELSE IF u \notin DOMAIN file THEN FileDone(file, Bool(FALSE))
         ELSE FileDone([file EXCEPT ![u].password = Hash(pw)], Bool(TRUE))

\* the static marketplace catalog the file-backed marketService serves
MarketCatalog == {"market-fetch", "market-time"}

MarketEntry(n) == [name |-> n, display_name |-> n, is_official |-> FALSE]

getMarketServersFile(ff) ==
    IF ff THEN FileThrew(MarketCatalog)
    ELSE FileDone(MarketCatalog, [record |-> [n \in MarketCatalog |-> MarketEntry(n)]])

----------------------------------------------------------------------------
(* Database attempts: the body of each adapter's try block, statement by   *)
(* statement. `fail` is the number of the statement that throws (0: none). *)

\* getServersInfo: findAll, then the field mapping
getServersInfoDb(db, fail) ==
    IF Throws(1, fail) THEN Threw(db, 1)
    ELSE Done(db, List({[name |-> n, status |-> "disconnected", tools |-> <<>>,
                         enabled |-> db[n].enabled] : n \in DOMAIN db}), 1)

\* getServerConfigByName: findByName, the entity returned as it is
getServerConfigByNameDb(db, name, fail) ==
    IF Throws(1, fail) THEN Threw(db, 1)
    ELSE Done(db, IF name \in DOMAIN db
                  THEN [shape |-> "entity", name |-> name, enabled |-> db[name].enabled]
                  ELSE Null, 1)

saveServerConfigMutantNoWrite(db, name, en, first, fail) ==
    IF Throws(first, fail) THEN Threw(db, first)
    ELSE IF Throws(first + 1, fail) THEN Threw(db, first + 1)
    ELSE Done(db, NoValue, first + 1)

saveServerConfigMutantWriteThenThrow(db, name, en, first, fail) ==
    IF Throws(first, fail) THEN Threw(db, first)
    ELSE IF Throws(first + 1, fail) THEN Threw(Put(db, name, [enabled |-> en]), first + 1)
    ELSE Done(Put(db, name, [enabled |-> en]), NoValue, first + 1)

\* ServerConfigRepository.save: findByName, then repository.save
saveServerConfig(db, name, en, first, fail) ==
    IF Throws(first, fail) THEN Threw(db, first)
    ELSE IF Throws(first + 1, fail) THEN Threw(db, first + 1)
    ELSE Done(Put(db, name, [enabled |-> en]), NoValue, first + 1)

addServerDb(db, name, cfgEnabled, fail) ==
    IF Throws(1, fail) THEN Threw(db, 1)
    ELSE IF name \in DOMAIN db
         THEN Done(db, [success |-> FALSE, message |-> "Server name already exists"], 1)
         ELSE LET s == saveServerConfig(db, name, EnabledOf(cfgEnabled), 2, fail)
              IN  IF s.threw THEN s
                  ELSE Done(s.db, [success |-> TRUE, message |-> "Server added successfully"],
                            s.calls)

updateMcpServerDb(db, name, cfgEnabled, fail) ==
    IF Throws(1, fail) THEN Threw(db, 1)
    ELSE IF name \notin DOMAIN db
         THEN Done(db, [success |-> FALSE, message |-> "Server not found"], 1)
         ELSE LET s == saveServerConfig(db, name, EnabledOf(cfgEnabled), 2, fail)
              IN  IF s.threw THEN s
                  ELSE Done(s.db, [success |-> TRUE, message |-> "Server updated successfully"],
                            s.calls)

\* removeServer: findByName, then delete
removeServerDb(db, name, fail) ==
    IF Throws(1, fail) THEN Threw(db, 1)
    ELSE IF name \notin DOMAIN db
         THEN Done(db, [success |-> FALSE, message |-> "Server not found"], 1)
         ELSE IF Throws(2, fail) THEN Threw(db, 2)
         ELSE Done(Remove(db, name),
                   [success |-> TRUE, message |-> "Server removed successfully"], 2)

\* toggleServerStatus: toggleEnabled = findByName, then save
toggleServerStatusDb(db, name, en, fail) ==
    IF Throws(1, fail) THEN Threw(db, 1)
    ELSE IF name \notin DOMAIN db
         THEN Done(db, [success |-> FALSE, message |-> "Server not found"], 1)
         ELSE LET s == saveServerConfig(db, name, en, 2, fail)
              IN  IF s.threw THEN s
                  ELSE Done(s.db, [success |-> TRUE,
                                   message |-> IF en THEN "Server enabled successfully"
                                               ELSE "Server disabled successfully"],
                            s.calls)

getUsersDb(db, fail) ==
    IF Throws(1, fail) THEN Threw(db, 1)
    ELSE Done(db, List({UserShape(u, db[u]) : u \in DOMAIN db}), 1)

findUserByUsernameDb(db, u, fail) ==
    IF Throws(1, fail) THEN Threw(db, 1)
    ELSE Done(db, IF u \in DOMAIN db THEN UserShape(u, db[u]) ELSE Undef, 1)

\* UserRepository.createUser: findByUsername, throw when the name is taken,
\* hash, save
createUserDb(db, u, pw, admin, fail) ==
    IF Throws(1, fail) THEN Threw(db, 1)
    ELSE IF u \in DOMAIN db THEN Threw(db, 1)
    ELSE IF Throws(2, fail) THEN Threw(db, 2)
    ELSE Done(Put(db, u, [password |-> Hash(pw), isAdmin |-> admin]),
              [username |-> u, password |-> Hash(pw), isAdmin |-> admin], 2)

\* UserRepository.updatePassword: findByUsername, hash, save
updateUserPasswordDb(db, u, pw, fail) ==
    IF Throws(1, fail) THEN Threw(db, 1)
    ELSE IF u \notin DOMAIN db THEN Done(db, Bool(FALSE), 1)
    ELSE IF Throws(2, fail) THEN Threw(db, 2)
    ELSE Done([db EXCEPT ![u].password = Hash(pw)], Bool(TRUE), 2)

\* getMarketServers: findAll, then the array-to-record field mapping
getMarketServersDb(db, fail) ==
    IF Throws(1, fail) THEN Threw(db, 1)
    ELSE Done(db, [record |-> [n \in db |-> MarketEntry(n)]], 1)

----------------------------------------------------------------------------
(* The adapter discipline shared by every wrapped operation:               *)
(*   if (shouldUseDatabase(..)) { try { <db> } catch { return <file>() } } *)
(*   return <file>()                                                       *)
(* `a` is the database attempt, `f` the file-backed implementation run on  *)
(* the same arguments. The result keeps what the caller observes (value,   *)
(* threw) and what each backend is left with.                              *)

RouteMutantPropagate(useDb, a, f, db, file) ==
    IF useDb
    THEN IF a.threw
         THEN [route |-> "fallback", threw |-> TRUE, value |-> NoValue,
               db |-> a.db, file |-> file, dbThrew |-> TRUE, fileThrew |-> FALSE,
               dbTouched |-> a.calls > 0]
         ELSE [route |-> "db", threw |-> FALSE, value |-> a.value,
               db |-> a.db, file |-> file, dbThrew |-> FALSE, fileThrew |-> FALSE,
               dbTouched |-> a.calls > 0]
    ELSE [route |-> "file", threw |-> f.threw, value |-> f.value,
          db |-> db, file |-> f.file, dbThrew |-> FALSE, fileThrew |-> f.threw,
          dbTouched |-> FALSE]

Route(useDb, a, f, db, file) ==
    IF useDb
    THEN IF a.threw
         THEN [route |-> "fallback", threw |-> f.threw, value |-> f.value,
               db |-> a.db, file |-> f.file, dbThrew |-> TRUE, fileThrew |-> f.threw,
               dbTouched |-> a.calls > 0]
         ELSE [route |-> "db", threw |-> FALSE, value |-> a.value,
               db |-> a.db, file |-> file, dbThrew |-> FALSE, fileThrew |-> FALSE,
               dbTouched |-> a.calls > 0]
    ELSE [route |-> "file", threw |-> f.threw, value |-> f.value,
          db |-> db, file |-> f.file, dbThrew |-> FALSE, fileThrew |-> f.threw,
          dbTouched |-> FALSE]

\* what the last step's call looked like to its caller
Outcome(op, arg, r, flag) ==
    [op |-> op, arg |-> arg, route |-> r.route, threw |-> r.threw, value |-> r.value,
     dbThrew |-> r.dbThrew, fileThrew |-> r.fileThrew, dbTouched |-> r.dbTouched,
     flag |-> flag]

NoCall == [op |-> "none"]

----------------------------------------------------------------------------
(* Adapter operations, one action per call *)

\* the call leaves tables `db`/`file` of one entity group as r says
Returns(op, arg, r) ==
    /\ ret' = Outcome(op, arg, r, enabled)
    /\ lastDbAdd' = IF op = "addServer" /\ r.route = "db" /\ r.value.success THEN arg.name
                    ELSE IF op = "getServersInfo" THEN lastDbAdd
                    ELSE None
    /\ UNCHANGED <<enabled, migrationCompleted, connected, dbGroups, vectorVars>>

ServerCall(op, arg, a, f) ==
    LET r == Route(shouldUseDatabase, a, f, dbServers, fileServers)
    IN  /\ dbServers' = r.db
        /\ fileServers' = r.file
        /\ Returns(op, arg, r)
        /\ UNCHANGED <<dbUsers, fileUsers, dbMarket>>

UserCall(op, arg, a, f) ==
    LET r == Route(shouldUseDatabase, a, f, dbUsers, fileUsers)
    IN  /\ dbUsers' = r.db
        /\ fileUsers' = r.file
        /\ Returns(op, arg, r)
        /\ UNCHANGED <<dbServers, fileServers, dbMarket>>

getServersInfo ==
    \E fail \in FailPoints(1), ff \in BOOLEAN :
        ServerCall("getServersInfo", [none |-> TRUE],
                   getServersInfoDb(dbServers, fail), getServersInfoFile(fileServers, ff))

getServerConfigByName ==
    \E name \in ServerNames, fail \in FailPoints(1), ff \in BOOLEAN :
        ServerCall("getServerConfigByName", [name |-> name],
                   getServerConfigByNameDb(dbServers, name, fail),
                   getServerConfigByNameFile(fileServers, name, ff))

addServer ==
    \E name \in ServerNames, en \in ConfigEnabled, fail \in FailPoints(3), ff \in BOOLEAN :
        ServerCall("addServer", [name |-> name, enabled |-> en],
                   addServerDb(dbServers, name, en, fail),
                   addServerFile(fileServers, name, en, ff))

updateMcpServer ==
    \E name \in ServerNames, en \in ConfigEnabled, fail \in FailPoints(3), ff \in BOOLEAN :
        ServerCall("updateMcpServer", [name |-> name, enabled |-> en],
                   updateMcpServerDb(dbServers, name, en, fail),
                   updateMcpServerFile(fileServers, name, en, ff))

removeServer ==
    \E name \in ServerNames, fail \in FailPoints(2), ff \in BOOLEAN :
        ServerCall("removeServer", [name |-> name],
                   removeServerDb(dbServers, name, fail),
                   removeServerFile(fileServers, name, ff))

toggleServerStatus ==
    \E name \in ServerNames, en \in BOOLEAN, fail \in FailPoints(3), ff \in BOOLEAN :
        ServerCall("toggleServerStatus", [name |-> name, enabled |-> en],
                   toggleServerStatusDb(dbServers, name, en, fail),
                   toggleServerStatusFile(fileServers, name, en, ff))

getUsers ==
    \E fail \in FailPoints(1), ff \in BOOLEAN :
        UserCall("getUsers", [none |-> TRUE],
                 getUsersDb(dbUsers, fail), getUsersFile(fileUsers, ff))

findUserByUsername ==
    \E u \in UserNames, fail \in FailPoints(1), ff \in BOOLEAN :
        UserCall("findUserByUsername", [username |-> u],
                 findUserByUsernameDb(dbUsers, u, fail), findUserByUsernameFile(fileUsers, u, ff))

createUser ==
    \E u \in UserNames, pw \in Passwords, admin \in BOOLEAN, fail \in FailPoints(2),
       ff \in BOOLEAN :
        UserCall("createUser", [username |-> u, password |-> pw, isAdmin |-> admin],
                 createUserDb(dbUsers, u, pw, admin, fail),
                 createUserFile(fileUsers, u, pw, admin, ff))

updateUserPassword ==
    \E u \in UserNames, pw \in Passwords, fail \in FailPoints(2), ff \in BOOLEAN :
        UserCall("updateUserPassword", [username |-> u, password |-> pw],
                 updateUserPasswordDb(dbUsers, u, pw, fail),
                 updateUserPasswordFile(fileUsers, u, pw, ff))

getMarketServers ==
    \E fail \in FailPoints(1), ff \in BOOLEAN :
        LET r == Route(shouldUseDatabase, getMarketServersDb(dbMarket, fail),
                       getMarketServersFile(ff), dbMarket, MarketCatalog)
        IN  /\ dbMarket' = r.db
            /\ Returns("getMarketServers", [none |-> TRUE], r)
            /\ UNCHANGED <<dbServers, fileServers, dbUsers, fileUsers>>

\* the operator edits databaseConfig.enabled
updateConfig ==
    \E b \in BOOLEAN :
        /\ enabled' = b
        /\ ret' = NoCall
        /\ lastDbAdd' = None
        /\ UNCHANGED <<migrationCompleted, connected, dbServers, fileServers, dbUsers,
                       fileUsers, dbMarket, dbGroups, vectorVars>>

\* the connection comes up (initializeDatabase) or goes away (closeDatabase)
initializeDatabase ==
    /\ ~connected
    /\ connected' = TRUE
    /\ ret' = NoCall
    /\ lastDbAdd' = None
    /\ UNCHANGED <<enabled, migrationCompleted, dbServers, fileServers, dbUsers, fileUsers,
                   dbMarket, dbGroups, vectorVars>>

closeDatabase ==
    /\ connected
    /\ connected' = FALSE
    /\ ret' = NoCall
    /\ lastDbAdd' = None
    /\ UNCHANGED <<enabled, migrationCompleted, dbServers, fileServers, dbUsers, fileUsers,
                   dbMarket, dbGroups, vectorVars>>

\* the file-backed catalog the process starts with: one connected server
\* with tools, as mcpService reports it
InitialFileServers ==
    Put(Empty, "weather", [enabled |-> TRUE, status |-> "connected",
                           tools |-> <<"getForecast">>])

InitAdapter ==
    /\ enabled \in BOOLEAN
    /\ migrationCompleted = FALSE
    /\ dbGroups = Empty
    /\ connected \in BOOLEAN
    /\ dbServers = Empty
    /\ fileServers \in {Empty, InitialFileServers}
    /\ dbUsers = Empty
    /\ fileUsers = Empty
    /\ dbMarket = {"market-fetch"}
    /\ ret = NoCall
    /\ lastDbAdd = None
    /\ apiKey = FALSE
    /\ width = 0
    /\ index = "none"
    /\ rows = {}
    /\ pc = "idle"
    /\ call = NoCall
    /\ resp = NoCall
    /\ hist = NoCall

NextAdapter ==
    \/ getServersInfo
    \/ getServerConfigByName
    \/ addServer
    \/ updateMcpServer
    \/ removeServer
    \/ toggleServerStatus
    \/ getUsers
    \/ findUserByUsername
    \/ createUser
    \/ updateUserPassword
    \/ getMarketServers
    \/ updateConfig
    \/ initializeDatabase
    \/ closeDatabase

SpecAdapter == InitAdapter /\ [][NextAdapter]_vars

----------------------------------------------------------------------------
(* Claims about the adapters (SpecAdapter) *)

\* the file-backed implementation of `op`, run on the current file stores
\* with the arguments `arg`, the settings file being readable
FileRun(op, arg) ==
    CASE op = "getServersInfo" -> getServersInfoFile(fileServers, FALSE)
      [] op = "getServerConfigByName" -> getServerConfigByNameFile(fileServers, arg.name, FALSE)
      [] op = "addServer" -> addServerFile(fileServers, arg.name, arg.enabled, FALSE)
      [] op = "updateMcpServer" -> updateMcpServerFile(fileServers, arg.name, arg.enabled, FALSE)
      [] op = "removeServer" -> removeServerFile(fileServers, arg.name, FALSE)
      [] op = "toggleServerStatus" ->
             toggleServerStatusFile(fileServers, arg.name, arg.enabled, FALSE)
      [] op = "getUsers" -> getUsersFile(fileUsers, FALSE)
      [] op = "findUserByUsername" -> findUserByUsernameFile(fileUsers, arg.username, FALSE)
      [] op = "createUser" ->
             createUserFile(fileUsers, arg.username, arg.password, arg.isAdmin, FALSE)
      [] op = "updateUserPassword" ->
             updateUserPasswordFile(fileUsers, arg.username, arg.password, FALSE)
      [] op = "getMarketServers" -> getMarketServersFile(FALSE)

\* the file store of the entity group of `op`, as the step leaves it
FileStoreAfter(op) ==
    IF op \in {"getUsers", "findUserByUsername", "createUser", "updateUserPassword"}
    THEN fileUsers'
    ELSE IF op = "getMarketServers" THEN MarketCatalog ELSE fileServers'

IsCall(r) == r.op # "none"

\* C1: fallback transparency. In every step that completes an adapter call
\* whose database attempt threw while the flag was enabled, and whose
\* file-backed implementation did not itself fail, the caller gets no error
\* and exactly the value the file-backed implementation returns for the same
\* arguments on the file store as it was before the call, and the file store
\* is left as that implementation leaves it.
C1_FallbackTransparency ==
    [][ (IsCall(ret') /\ ret'.flag /\ ret'.dbThrew /\ ~ret'.fileThrew)
        => /\ ret'.route = "fallback"
           /\ ~ret'.threw
           /\ ret'.value = FileRun(ret'.op, ret'.arg).value
           /\ FileStoreAfter(ret'.op) = FileRun(ret'.op, ret'.arg).file ]_vars

\* C1 witness: a getServersInfo whose database read threw returned the
\* file-backed list, which differs from what the database rows map to
C1_Witness ==
    /\ ret.op = "getServersInfo"
    /\ ret.flag /\ ret.dbThrew /\ ~ret.threw
    /\ ret.value = getServersInfoFile(fileServers, FALSE).value
    /\ connected
    /\ ret.value # getServersInfoDb(dbServers, 0).value

\* C2: a call raises an error to its caller only if the file-backed
\* implementation failed: the call was file-routed and that implementation
\* threw, or the database attempt threw and the file-backed re-execution
\* threw as well.
C2_ErrorOnlyFromFile ==
    (IsCall(ret) /\ ret.threw)
    => /\ ret.fileThrew
       /\ \/ ret.route = "file" /\ ~ret.flag /\ ~ret.dbThrew
          \/ ret.route = "fallback" /\ ret.flag /\ ret.dbThrew

\* C2 witness: a createUser whose database attempt threw and whose file
\* fallback threw too reached the caller as an error
C2_Witness ==
    /\ ret.op = "createUser"
    /\ ret.threw /\ ret.route = "fallback" /\ ret.dbThrew /\ ret.fileThrew

NamesOf(value) == {r.name : r \in value.list}

\* C4: weak consistency. After addServer(n) completed in the database, a
\* getServersInfo whose database read throws answers from the file store
\* alone: n is in the database, and n is in the returned list exactly when
\* the file store happens to hold n. (The witness is the execution the
\* claim says exists: n is in the database and not in the returned list.)
C4_FallbackReadSeesFileOnly ==
    (ret.op = "getServersInfo" /\ ret.route = "fallback" /\ ~ret.threw /\ lastDbAdd # None)
    => /\ lastDbAdd \in DOMAIN dbServers
       /\ (lastDbAdd \in NamesOf(ret.value)) <=> (lastDbAdd \in DOMAIN fileServers)

C4_Witness ==
    /\ ret.op = "getServersInfo" /\ ret.route = "fallback" /\ ~ret.threw
    /\ lastDbAdd # None
    /\ lastDbAdd \in DOMAIN dbServers
    /\ lastDbAdd \notin NamesOf(ret.value)

----------------------------------------------------------------------------
(* Embedding provider (generateEmbedding, generateFallbackEmbedding).      *)
(* A text is the sequence of its whitespace-separated words. A vector is   *)
(* kept as its length `dim` and its non-zero components `at`. Components   *)
(* are integers that stand for the vector's direction: the code divides    *)
(* the fallback vector by its magnitude, which changes neither its length  *)
(* nor any cosine similarity, so the model keeps the vector before that    *)
(* division, in tenths (a vocabulary hit adds 10, a hash hit adds 1).      *)

EMBEDDING_MODEL == "text-embedding-3-small"
EMBEDDING_DIMENSIONS == 1536
BGE_DIMENSIONS == 1024
FALLBACK_DIMENSIONS == 100

getDimensionsForModel(model) ==
    CASE model = "BAAI/bge-m3" -> BGE_DIMENSIONS
      [] model = "text-embedding-3-small" -> EMBEDDING_DIMENSIONS
      [] model \in {"fallback", "simple-hash"} -> FALLBACK_DIMENSIONS
      [] OTHER -> EMBEDDING_DIMENSIONS

DEFAULT_DIMENSIONS == getDimensionsForModel(EMBEDDING_MODEL)

vocabulary ==
    << "search", "find", "get", "fetch", "retrieve", "query", "map",
       "location", "weather", "file", "directory", "email", "message", "send",
       "create", "update", "delete", "browser", "web", "page", "click",
       "navigate", "screenshot", "automation", "database", "table", "record", "insert",
       "select", "schema", "data", "image", "photo", "video", "media",
       "upload", "download", "convert", "text", "document", "pdf", "excel",
       "word", "format", "parse", "api", "rest", "http", "request",
       "response", "json", "xml", "time", "date", "calendar", "schedule",
       "reminder", "clock", "math", "calculate", "number", "sum", "average",
       "statistics", "user", "account", "login", "auth", "permission", "role" >>

\* String.charCodeAt, for the words that occur in the modelled texts
CharCodes ==
    ("search" :> << 115, 101, 97, 114, 99, 104 >>)
    @@ ("find" :> << 102, 105, 110, 100 >>)
    @@ ("get" :> << 103, 101, 116 >>)
    @@ ("fetch" :> << 102, 101, 116, 99, 104 >>)
    @@ ("retrieve" :> << 114, 101, 116, 114, 105, 101, 118, 101 >>)
    @@ ("query" :> << 113, 117, 101, 114, 121 >>)
    @@ ("map" :> << 109, 97, 112 >>)
    @@ ("location" :> << 108, 111, 99, 97, 116, 105, 111, 110 >>)
    @@ ("weather" :> << 119, 101, 97, 116, 104, 101, 114 >>)
    @@ ("file" :> << 102, 105, 108, 101 >>)
    @@ ("directory" :> << 100, 105, 114, 101, 99, 116, 111, 114, 121 >>)
    @@ ("email" :> << 101, 109, 97, 105, 108 >>)
    @@ ("message" :> << 109, 101, 115, 115, 97, 103, 101 >>)
    @@ ("send" :> << 115, 101, 110, 100 >>)
    @@ ("create" :> << 99, 114, 101, 97, 116, 101 >>)
    @@ ("update" :> << 117, 112, 100, 97, 116, 101 >>)
    @@ ("delete" :> << 100, 101, 108, 101, 116, 101 >>)
    @@ ("browser" :> << 98, 114, 111, 119, 115, 101, 114 >>)
    @@ ("web" :> << 119, 101, 98 >>)
    @@ ("page" :> << 112, 97, 103, 101 >>)
    @@ ("click" :> << 99, 108, 105, 99, 107 >>)
    @@ ("navigate" :> << 110, 97, 118, 105, 103, 97, 116, 101 >>)
    @@ ("screenshot" :> << 115, 99, 114, 101, 101, 110, 115, 104, 111, 116 >>)
    @@ ("automation" :> << 97, 117, 116, 111, 109, 97, 116, 105, 111, 110 >>)
    @@ ("database" :> << 100, 97, 116, 97, 98, 97, 115, 101 >>)
    @@ ("table" :> << 116, 97, 98, 108, 101 >>)
    @@ ("record" :> << 114, 101, 99, 111, 114, 100 >>)
    @@ ("insert" :> << 105, 110, 115, 101, 114, 116 >>)
    @@ ("select" :> << 115, 101, 108, 101, 99, 116 >>)
    @@ ("schema" :> << 115, 99, 104, 101, 109, 97 >>)
    @@ ("data" :> << 100, 97, 116, 97 >>)
    @@ ("image" :> << 105, 109, 97, 103, 101 >>)
    @@ ("photo" :> << 112, 104, 111, 116, 111 >>)
    @@ ("video" :> << 118, 105, 100, 101, 111 >>)
    @@ ("media" :> << 109, 101, 100, 105, 97 >>)
    @@ ("upload" :> << 117, 112, 108, 111, 97, 100 >>)
    @@ ("download" :> << 100, 111, 119, 110, 108, 111, 97, 100 >>)
    @@ ("convert" :> << 99, 111, 110, 118, 101, 114, 116 >>)
    @@ ("text" :> << 116, 101, 120, 116 >>)
    @@ ("document" :> << 100, 111, 99, 117, 109, 101, 110, 116 >>)
    @@ ("pdf" :> << 112, 100, 102 >>)
    @@ ("excel" :> << 101, 120, 99, 101, 108 >>)
    @@ ("word" :> << 119, 111, 114, 100 >>)
    @@ ("format" :> << 102, 111, 114, 109, 97, 116 >>)
    @@ ("parse" :> << 112, 97, 114, 115, 101 >>)
    @@ ("api" :> << 97, 112, 105 >>)
    @@ ("rest" :> << 114, 101, 115, 116 >>)
    @@ ("http" :> << 104, 116, 116, 112 >>)
    @@ ("request" :> << 114, 101, 113, 117, 101, 115, 116 >>)
    @@ ("response" :> << 114, 101, 115, 112, 111, 110, 115, 101 >>)
    @@ ("json" :> << 106, 115, 111, 110 >>)
    @@ ("xml" :> << 120, 109, 108 >>)
    @@ ("time" :> << 116, 105, 109, 101 >>)
    @@ ("date" :> << 100, 97, 116, 101 >>)
    @@ ("calendar" :> << 99, 97, 108, 101, 110, 100, 97, 114 >>)
    @@ ("schedule" :> << 115, 99, 104, 101, 100, 117, 108, 101 >>)
    @@ ("reminder" :> << 114, 101, 109, 105, 110, 100, 101, 114 >>)
    @@ ("clock" :> << 99, 108, 111, 99, 107 >>)
    @@ ("math" :> << 109, 97, 116, 104 >>)
    @@ ("calculate" :> << 99, 97, 108, 99, 117, 108, 97, 116, 101 >>)
    @@ ("number" :> << 110, 117, 109, 98, 101, 114 >>)
    @@ ("sum" :> << 115, 117, 109 >>)
    @@ ("average" :> << 97, 118, 101, 114, 97, 103, 101 >>)
    @@ ("statistics" :> << 115, 116, 97, 116, 105, 115, 116, 105, 99, 115 >>)
    @@ ("user" :> << 117, 115, 101, 114 >>)
    @@ ("account" :> << 97, 99, 99, 111, 117, 110, 116 >>)
    @@ ("login" :> << 108, 111, 103, 105, 110 >>)
    @@ ("auth" :> << 97, 117, 116, 104 >>)
    @@ ("permission" :> << 112, 101, 114, 109, 105, 115, 115, 105, 111, 110 >>)
    @@ ("role" :> << 114, 111, 108, 101 >>)
    @@ ("" :> <<  >>)
    @@ ("getForecast" :> << 103, 101, 116, 70, 111, 114, 101, 99, 97, 115, 116 >>)
    @@ ("Get" :> << 71, 101, 116 >>)
    @@ ("forecast" :> << 102, 111, 114, 101, 99, 97, 115, 116 >>)
    @@ ("for" :> << 102, 111, 114 >>)
    @@ ("a" :> << 97 >>)
    @@ ("getAlerts" :> << 103, 101, 116, 65, 108, 101, 114, 116, 115 >>)
    @@ ("alerts" :> << 97, 108, 101, 114, 116, 115 >>)
    @@ ("unrelated" :> << 117, 110, 114, 101, 108, 97, 116, 101, 100 >>)
    @@ ("quantum" :> << 113, 117, 97, 110, 116, 117, 109 >>)
    @@ ("physics" :> << 112, 104, 121, 115, 105, 99, 115 >>)
    @@ ("readFile" :> << 114, 101, 97, 100, 70, 105, 108, 101 >>)
    @@ ("Read" :> << 82, 101, 97, 100 >>)
    @@ ("path" :> << 112, 97, 116, 104 >>)
    @@ ("weather_getForecast" :>
          << 119, 101, 97, 116, 104, 101, 114, 95, 103, 101, 116, 70, 111, 114, 101, 99, 97, 115, 116 >>)

\* new Array(n).fill(0)
ZeroVector(n) == [dim |-> n, at |-> [i \in {} |-> 0]]

\* no vector (yet)
NoVector == ZeroVector(0)

\* embedding.length
Length(v) == v.dim

\* vector[k] += d, k counted from 1, d > 0
AddAt(v, k, d) ==
    [v EXCEPT !.at = [i \in DOMAIN v.at \cup {k} |->
                         (IF i \in DOMAIN v.at THEN v.at[i] ELSE 0) + (IF i = k THEN d ELSE 0)]]

toLowerCase(codes) ==
    [i \in 1..Len(codes) |-> IF codes[i] \in 65..90 THEN codes[i] + 32 ELSE codes[i]]

\* text.toLowerCase().split(/\s+/): the empty text splits into one empty word
SplitWords(text) ==
    IF text = <<>> THEN << <<>> >>
    ELSE [i \in 1..Len(text) |-> toLowerCase(CharCodes[text[i]])]

\* vocabulary.indexOf(word), zero-based, -1 when absent
indexOf(word) ==
    LET hits == {i \in 1..Len(vocabulary) : CharCodes[vocabulary[i]] = word}
    IN  IF hits = {} THEN -1
        ELSE (CHOOSE i \in hits : \A j \in hits : i <= j) - 1

\* word.split('').reduce((a, b) => a + b.charCodeAt(0), 0)
RECURSIVE CharCodeSum(_)
CharCodeSum(word) == IF word = <<>> THEN 0 ELSE Head(word) + CharCodeSum(Tail(word))

\* the body of words.forEach, folded over the words
RECURSIVE AddWords(_, _)
AddWords(vector, words) ==
    IF words = <<>> THEN vector
    ELSE LET word == Head(words)
             idx == indexOf(word)
             v1 == IF idx >= 0 /\ idx < Length(vector)
                   THEN AddAt(vector, idx + 1, 10)
                   ELSE vector
             hash == CharCodeSum(word)
         IN  AddWords(AddAt(v1, (hash % Length(vector)) + 1, 1), Tail(words))

generateFallbackEmbeddingMutantSalted(text) ==
    AddAt(AddWords(ZeroVector(FALLBACK_DIMENSIONS), SplitWords(text)), 1,
          Cardinality(DOMAIN hist))

generateFallbackEmbedding(text) ==
    AddWords(ZeroVector(FALLBACK_DIMENSIONS), SplitWords(text))

\* how many different vectors the embedding service is let to answer with
ServiceDirections == 2

\* what openai.embeddings.create can do: reject, or answer with a vector of
\* the model's dimensionality
ServiceResponses ==
    {[error |-> TRUE, embedding |-> NoVector]}
    \cup {[error |-> FALSE, embedding |-> AddAt(ZeroVector(EMBEDDING_DIMENSIONS), k, 1)]
          : k \in 1..ServiceDirections}

generateEmbeddingMutantRethrow(text, response) ==
    IF ~apiKey THEN generateFallbackEmbedding(text)
    ELSE IF response.error THEN NoVector
    ELSE response.embedding

\* (the texts of the model are shorter than the 8000 characters beyond
\* which the code truncates its input)
generateEmbedding(text, response) ==
    IF ~apiKey THEN generateFallbackEmbedding(text)
    ELSE IF response.error THEN generateFallbackEmbedding(text)
    ELSE response.embedding

----------------------------------------------------------------------------
(* The vector store: table vector_embeddings, the declared width of its    *)
(* column `embedding`, and the index on that column. The database is an    *)
(* external collaborator, modelled by the contract the code relies on:     *)
(* the catalog reports a declared width w as w + 4 and none as -1;         *)
(* ALTER COLUMN .. TYPE vector(n) re-declares the width and leaves the     *)
(* rows as they are; a column of declared width w takes and compares only  *)
(* vectors of length w; an undefined cosine similarity (a zero vector)     *)
(* compares greater than every number.                                     *)

\* SELECT atttypmod FROM pg_attribute ..
atttypmod(w) == IF w = 0 THEN -1 ELSE w + 4

currentDimensionsMutantRaw(dimensions) == IF dimensions > 0 THEN dimensions ELSE 0

\* result[0].dimensions > 0 ? result[0].dimensions - 4 : 0
currentDimensions(dimensions) == IF dimensions > 0 THEN dimensions - 4 ELSE 0

NeedsAlterMutantNever(current, dimensionsNeeded) == FALSE

\* currentDimensions === 0 || currentDimensions !== dimensionsNeeded
NeedsAlter(current, dimensionsNeeded) == current = 0 \/ current # dimensionsNeeded

AlterColumnTypeMutantDropRows(table, n) == {r \in table : r.dimensions = n}

\* ALTER TABLE vector_embeddings ALTER COLUMN embedding TYPE vector(n)
AlterColumnType(table, n) == table

\* the column refuses an operand of another length than its declared width
Rejects(w, embedding) == w # 0 /\ Length(embedding) # w

saveEmbeddingRowMutantFixed(contentType, contentId, textContent, embedding, metadata, model) ==
    [content_type |-> contentType, content_id |-> contentId, text_content |-> textContent,
     embedding |-> embedding, dimensions |-> DEFAULT_DIMENSIONS, metadata |-> metadata,
     model |-> model]

\* the entity saveEmbedding fills in
saveEmbeddingRow(contentType, contentId, textContent, embedding, metadata, model) ==
    [content_type |-> contentType, content_id |-> contentId, text_content |-> textContent,
     embedding |-> embedding, dimensions |-> Length(embedding), metadata |-> metadata,
     model |-> model]

UpsertMutantInsert(table, row) == table \cup {row}

\* this.save of the entity found for the identity, or of a new one
Upsert(table, row) ==
    {r \in table : ~(r.content_type = row.content_type /\ r.content_id = row.content_id)}
    \cup {row}

Support(a) == DOMAIN a.at

RECURSIVE SumOver(_, _)
SumOver(f, S) ==
    IF S = {} THEN 0
    ELSE LET i == CHOOSE j \in S : TRUE IN f[i] + SumOver(f, S \ {i})

Dot(a, b) == SumOver([i \in Support(a) \cap Support(b) |-> a.at[i] * b.at[i]],
                     Support(a) \cap Support(b))

SimilarityMutantInnerProduct(q, v) == [dot |-> Dot(q, v), qq |-> 1, vv |-> 1]

\* 1 - (embedding <=> :embedding), kept as the three products it is made of:
\* the similarity is dot / sqrt(qq * vv), undefined when qq * vv = 0
Similarity(q, v) == [dot |-> Dot(q, v), qq |-> Dot(q, q), vv |-> Dot(v, v)]

IsNaN(s) == s.qq = 0 \/ s.vv = 0

AboveMutantNaNBelow(s, t10) ==
    IF IsNaN(s) THEN FALSE
    ELSE IF t10 < 0
         THEN s.dot >= 0 \/ 100 * s.dot * s.dot < t10 * t10 * s.qq * s.vv
         ELSE s.dot > 0 /\ 100 * s.dot * s.dot > t10 * t10 * s.qq * s.vv

\* similarity > threshold, the threshold given in tenths
Above(s, t10) ==
    IF IsNaN(s) THEN TRUE
    ELSE IF t10 < 0
         THEN s.dot >= 0 \/ 100 * s.dot * s.dot < t10 * t10 * s.qq * s.vv
         ELSE s.dot > 0 /\ 100 * s.dot * s.dot > t10 * t10 * s.qq * s.vv

\* similarity a >= similarity b, both taken against the same query
AtLeast(a, b) ==
    IF IsNaN(a) THEN TRUE
    ELSE IF IsNaN(b) THEN FALSE
    ELSE IF a.dot >= 0 /\ b.dot < 0 THEN TRUE
    ELSE IF a.dot < 0 /\ b.dot >= 0 THEN FALSE
    ELSE IF a.dot >= 0 THEN a.dot * a.dot * b.vv >= b.dot * b.dot * a.vv
    ELSE a.dot * a.dot * b.vv <= b.dot * b.dot * a.vv

Orderings(S) ==
    {s \in [1..Cardinality(S) -> S] : \A i, j \in 1..Cardinality(S) : i # j => s[i] # s[j]}

Min(a, b) == IF a <= b THEN a ELSE b

searchSimilarMutantLimitFirst(table, embedding, limit, threshold, contentTypes) ==
    LET sim(r) == Similarity(embedding, r.embedding)
        matches == {r \in table : /\ contentTypes = {} \/ r.content_type \in contentTypes
                                  /\ Length(r.embedding) = Length(embedding)
                                  /\ Above(sim(r), threshold)}
        taken == {S \in SUBSET matches : Cardinality(S) = Min(limit, Cardinality(matches))}
        ranked(S) == {s \in Orderings(S) :
                         \A i \in 1..(Len(s) - 1) : AtLeast(sim(s[i]), sim(s[i + 1]))}
    IN  UNION {{[i \in 1..Len(s) |-> [embedding |-> s[i], similarity |-> sim(s[i])]]
                : s \in ranked(S)} : S \in taken}

\* the result lists searchSimilar's query can return: the rows of the wanted
\* content types above the threshold, best first, at most `limit` of them;
\* rows of equal similarity come in any order
searchSimilar(table, embedding, limit, threshold, contentTypes) ==
    LET sim(r) == Similarity(embedding, r.embedding)
        matches == {r \in table : /\ contentTypes = {} \/ r.content_type \in contentTypes
                                  /\ Length(r.embedding) = Length(embedding)
                                  /\ Above(sim(r), threshold)}
        ranked == {s \in Orderings(matches) :
                      \A i \in 1..(Len(s) - 1) : AtLeast(sim(s[i]), sim(s[i + 1]))}
    IN  {[i \in 1..Min(limit, Len(s)) |-> [embedding |-> s[i], similarity |-> sim(s[i])]]
         : s \in ranked}

----------------------------------------------------------------------------
(* Tools and texts *)

\* the tools the connected servers report (ToolInfo)
ToolCatalog ==
    ("getForecast" :> [name |-> "getForecast",
                       description |-> <<"Get", "weather", "forecast", "for", "a", "location">>,
                       properties |-> <<"location">>])
    @@ ("getAlerts" :> [name |-> "getAlerts",
                        description |-> <<"Get", "weather", "alerts">>,
                        properties |-> <<"location">>])
    @@ ("readFile" :> [name |-> "readFile",
                       description |-> <<"Read", "a", "file">>,
                       properties |-> <<"path">>])

\* the servers mcpService reports in the vector specifications
ToolServers ==
    ("weather" :> [enabled |-> TRUE, status |-> "connected",
                   tools |-> <<"getForecast", "getAlerts">>])
    @@ ("files" :> [enabled |-> FALSE, status |-> "connected", tools |-> <<"readFile">>])

\* server_configs after the servers were migrated to the database
MigratedServers == [n \in DOMAIN ToolServers |-> [enabled |-> ToolServers[n].enabled]]

\* req.params.serverName: a connected server, a disabled one, an unknown
\* one, and none
RebuildTargets == {"weather", "files", "ghost", ""}

Queries == {<<"weather", "forecast">>, <<"unrelated", "quantum", "physics">>}
Limits == {1, 10}
\* similarity thresholds, in tenths
Thresholds == {0, 7}
ServerFilters == {{}, {"weather"}}

\* [tool.name, tool.description, ...schema keys, ...property names]
\*     .filter(Boolean).join(' ')
searchableText(tool) == <<tool.name>> \o tool.description \o tool.properties

toolMetadata(serverName, tool) ==
    [serverName |-> serverName, toolName |-> tool.name, description |-> tool.description,
     inputSchema |-> [properties |-> tool.properties]]

\* `${serverName}:${tool.name}`
contentId(serverName, tool) == serverName \o ":" \o tool.name

\* raw.metadata as the query hands it back: the stored document as JSON text
rawMetadata(doc) == [string |-> TRUE, doc |-> doc]

\* JSON.parse of that text
JSONparse(raw) == raw.doc

\* results.filter(..serverNames.includes(parsedMetadata.serverName)..)
FilterByServers(results, serverNames) ==
    IF serverNames = {} THEN results
    ELSE SelectSeq(results, LAMBDA x : /\ rawMetadata(x.embedding.metadata).string
                                       /\ JSONparse(rawMetadata(x.embedding.metadata)).serverName
                                              \in serverNames)

\* toolName.match(/^([^_]+)_/): the word whose characters precede the first
\* underscore, "unknown" when there is none
UnderscorePrefix(word) ==
    LET codes == CharCodes[word]
        at == {i \in 2..Len(codes) : codes[i] = 95 /\ \A j \in 1..(i - 1) : codes[j] # 95}
    IN  IF at = {} THEN "unknown"
        ELSE LET i == CHOOSE j \in at : TRUE
                 named == {w \in DOMAIN CharCodes : CharCodes[w] = SubSeq(codes, 1, i - 1)}
             IN  IF named = {} THEN "unknown" ELSE CHOOSE w \in named : TRUE

SearchResultMutantTextOnly(x) ==
    LET textContent == x.embedding.text_content
    IN  [serverName |-> IF textContent = <<>> THEN "unknown"
                        ELSE UnderscorePrefix(Head(textContent)),
         toolName |-> IF textContent = <<>> THEN "" ELSE Head(textContent),
         description |-> IF textContent = <<>> THEN <<>> ELSE Tail(textContent),
         inputSchema |-> [properties |-> <<>>],
         similarity |-> x.similarity, searchableText |-> textContent]

\* the map of searchToolsByVector: structured metadata when it parses and
\* names server and tool, else the fields parsed out of text_content
SearchResult(x) ==
    LET raw == rawMetadata(x.embedding.metadata)
        meta == JSONparse(raw)
        textContent == x.embedding.text_content
    IN  IF raw.string /\ meta.serverName # "" /\ meta.toolName # ""
        THEN [serverName |-> meta.serverName, toolName |-> meta.toolName,
              description |-> meta.description, inputSchema |-> meta.inputSchema,
              similarity |-> x.similarity, searchableText |-> textContent]
        ELSE [serverName |-> IF textContent = <<>> THEN "unknown"
                             ELSE UnderscorePrefix(Head(textContent)),
              toolName |-> IF textContent = <<>> THEN "" ELSE Head(textContent),
              description |-> IF textContent = <<>> THEN <<>> ELSE Tail(textContent),
              inputSchema |-> [properties |-> <<>>],
              similarity |-> x.similarity, searchableText |-> textContent]

\* the map of getAllVectorizedTools
ListedTool(x) ==
    LET raw == rawMetadata(x.embedding.metadata)
        meta == JSONparse(raw)
    IN  IF raw.string
        THEN [serverName |-> meta.serverName, toolName |-> meta.toolName,
              description |-> meta.description, inputSchema |-> meta.inputSchema]
        ELSE [serverName |-> "unknown", toolName |-> "unknown", description |-> <<>>,
              inputSchema |-> [properties |-> <<>>]]

----------------------------------------------------------------------------
(* Requests of the vector subsystem. One request runs at a time; `pc` is   *)
(* the awaited statement it is about to execute, and every statement sent  *)
(* to the database or to the embedding service may throw.                  *)

IdleCall ==
    [op |-> "none", queue |-> <<>>, toolsCount |-> 0, text |-> <<>>, embedding |-> NoVector,
     checked |-> "no", limit |-> 0, threshold |-> 0, serverNames |-> {}]

NoResp == [op |-> "none", status |-> 0, success |-> FALSE, toolsCount |-> 0, results |-> <<>>]

\* one invocation of checkDatabaseVectorDimensions: the width it was asked
\* for, the DDL statements it issued, how it returned, and the column's
\* width and index when it was entered
NoRecon ==
    [target |-> 0, ddl |-> <<>>, outcome |-> "none", failedAt |-> "none",
     entered |-> [width |-> 0, index |-> "none"]]

NoSearch == [qlen |-> 0, width |-> 0, outcome |-> "none"]

\* what is observed of a request: whether it sent anything to the database,
\* whether a reconciliation of it threw, its last two reconciliations, its
\* similarity query, and, of an ingest, the tools it was given, those whose
\* saveEmbedding returned and those whose pass of the loop ended in the catch
NoHist ==
    [dbTouched |-> FALSE, reconFailed |-> FALSE, recon |-> NoRecon, prev |-> NoRecon,
     search |-> NoSearch, batch |-> <<>>, saved |-> {}, failed |-> {}, catalog |-> "none",
     request |-> [op |-> "none"], introspection |-> "none"]

\* res.json / res.status(..).json of the controllers
Answer(op, status, toolsCount, results) ==
    [op |-> op, status |-> status, success |-> status = 200, toolsCount |-> toolsCount,
     results |-> results]

\* the request returns to its caller
Reply(answer, h) ==
    /\ pc' = "idle"
    /\ call' = IdleCall
    /\ resp' = answer
    /\ hist' = h

\* the request goes on to its statement `label`
Goto(label, c, h) ==
    /\ pc' = label
    /\ call' = c
    /\ resp' = resp
    /\ hist' = h

\* server.tools.map(tool => ..) of one server, as the loop will visit them
ItemsOf(name, tools) == [i \in 1..Len(tools) |-> [server |-> name, tool |-> tools[i]]]

RECURSIVE Flatten(_)
Flatten(servers) ==
    IF servers = <<>> THEN <<>>
    ELSE ItemsOf(Head(servers).name, Head(servers).tools) \o Flatten(Tail(servers))

\* saveToolsAsVectorEmbeddings is entered for the tools in `items`
BeginIngest(op, items, toolsCount, h) ==
    IF ~shouldUseDatabase
    THEN Reply(Answer(op, 200, toolsCount, <<>>), h)
    ELSE /\ pc' = "ingest.embed"
         /\ call' = [IdleCall EXCEPT !.op = op, !.queue = items, !.toolsCount = toolsCount]
         /\ resp' = NoResp
         /\ hist' = [h EXCEPT !.batch = items]

\* the end of one pass of the loop over the tools: the next tool, or, after
\* the last one, the return to the controller, which answers success
EndOfTool(h) ==
    IF Len(call.queue) > 1
    THEN Goto("ingest.embed",
              [call EXCEPT !.queue = Tail(@), !.text = <<>>, !.embedding = NoVector,
                           !.checked = "no"], h)
    ELSE Reply(Answer(call.op, 200, call.toolsCount, <<>>), h)

\* saveToolsAsVectorEmbeddings called with the tools a server reported when
\* it connected; the caller gets nothing back
saveToolsAsVectorEmbeddings ==
    \E serverName \in {n \in DOMAIN ToolServers : ToolServers[n].enabled} :
        /\ pc = "idle"
        /\ BeginIngest("ingest", ItemsOf(serverName, ToolServers[serverName].tools), 0, NoHist)
        /\ UNCHANGED <<adapterVars, apiKey, width, index, rows>>

\* controller rebuildServerEmbeddings up to the first awaited statement of
\* saveToolsAsVectorEmbeddings
rebuildServerEmbeddings ==
    \E serverName \in RebuildTargets, fail \in FailPoints(1), ff \in BOOLEAN :
        /\ pc = "idle"
        /\ LET r == Route(shouldUseDatabase, getServersInfoDb(dbServers, fail),
                          getServersInfoFile(fileServers, ff), dbServers, fileServers)
               found == IF r.threw THEN {} ELSE {s \in r.value.list : s.name = serverName}
               asked == [op |-> "rebuildServer", serverName |-> serverName]
               h == [NoHist EXCEPT !.dbTouched = r.dbTouched, !.catalog = r.route,
                                   !.request = asked]
               op == "rebuildServer"
           IN  IF serverName = ""
               THEN Reply(Answer(op, 400, 0, <<>>), [NoHist EXCEPT !.request = asked])
               ELSE IF r.threw THEN Reply(Answer(op, 500, 0, <<>>), h)
               ELSE IF found = {} THEN Reply(Answer(op, 404, 0, <<>>), h)
               ELSE LET server == CHOOSE s \in found : TRUE
                    IN  IF server.status # "connected" \/ ~server.enabled
                        THEN Reply(Answer(op, 400, 0, <<>>), h)
                        ELSE IF server.tools = <<>>
                        THEN Reply(Answer(op, 400, 0, <<>>), h)
                        ELSE BeginIngest(op, ItemsOf(serverName, server.tools),
                                         Len(server.tools), h)
        /\ UNCHANGED <<adapterVars, apiKey, width, index, rows>>

\* controller rebuildEmbeddings and saveAllServerToolsAsVectorEmbeddings up
\* to the first awaited statement of saveToolsAsVectorEmbeddings
rebuildEmbeddings ==
    \E fail \in FailPoints(1), ff \in BOOLEAN :
        /\ pc = "idle"
        /\ LET r == Route(shouldUseDatabase, getServersInfoDb(dbServers, fail),
                          getServersInfoFile(fileServers, ff), dbServers, fileServers)
               active == IF r.threw THEN {}
                         ELSE {s \in r.value.list : /\ s.status = "connected"
                                                    /\ s.enabled
                                                    /\ s.tools # <<>>}
               h == [NoHist EXCEPT !.dbTouched = r.dbTouched, !.catalog = r.route]
               op == "rebuildAll"
           IN  IF ~shouldUseDatabase THEN Reply(Answer(op, 200, 0, <<>>), NoHist)
               ELSE IF active = {} THEN Reply(Answer(op, 200, 0, <<>>), h)
               ELSE \E order \in Orderings(active) : BeginIngest(op, Flatten(order), 0, h)
        /\ UNCHANGED <<adapterVars, apiKey, width, index, rows>>

\* const embedding = await generateEmbedding(searchableText)
IngestEmbed ==
    /\ pc = "ingest.embed"
    /\ \E response \in ServiceResponses :
           LET item == Head(call.queue)
               text == searchableText(ToolCatalog[item.tool])
           IN  Goto("ingest.check",
                    [call EXCEPT !.text = text,
                                 !.embedding = generateEmbedding(text, response)], hist)
    /\ UNCHANGED <<adapterVars, apiKey, width, index, rows>>

\* `${serverName}:${tool.name}` of the tool the loop is at
CurrentId == contentId(Head(call.queue).server, ToolCatalog[Head(call.queue).tool])

\* catch (toolError): the pass of the loop for the current tool ended there
Caught(h) == [h EXCEPT !.failed = @ \cup {CurrentId}]

CheckThrowsMutantAbort(at, h) ==
    Reply(Answer(call.op, 200, call.toolsCount, <<>>),
          Caught([h EXCEPT !.recon.outcome = "error", !.recon.failedAt = at,
                           !.reconFailed = TRUE]))

\* a statement of checkDatabaseVectorDimensions threw: the function rethrows,
\* the catch of the loop body logs, and the loop goes on
CheckThrows(at, h) ==
    EndOfTool(Caught([h EXCEPT !.recon.outcome = "error", !.recon.failedAt = at,
                               !.reconFailed = TRUE]))

\* checkDatabaseVectorDimensions returned
CheckReturns(outcome, h) ==
    Goto("save.find", [call EXCEPT !.checked = outcome], [h EXCEPT !.recon.outcome = outcome])

\* if (shouldUseDatabase(..)) await checkDatabaseVectorDimensions(embedding.length):
\* the isInitialized test, the catalog query and the comparison
IngestCheck ==
    /\ pc = "ingest.check"
    /\ LET needed == Length(call.embedding)
           started == [NoRecon EXCEPT !.target = needed, !.outcome = "running",
                                      !.entered = [width |-> width, index |-> index]]
           h == [hist EXCEPT !.prev = hist.recon, !.recon = started]
           q == [h EXCEPT !.dbTouched = TRUE]
       IN  IF ~shouldUseDatabase THEN Goto("save.find", [call EXCEPT !.checked = "off"], hist)
           ELSE IF ~connected THEN CheckReturns("skipped", h)
           ELSE \E fail \in BOOLEAN :
                    IF fail THEN CheckThrows("introspect", q)
                    ELSE IF NeedsAlter(currentDimensions(atttypmod(width)), needed)
                    THEN Goto("check.drop", call, q)
                    ELSE CheckReturns("ok", q)
    /\ UNCHANGED <<adapterVars, apiKey, width, index, rows>>

Issued(statement) == [hist EXCEPT !.recon.ddl = Append(@, statement)]

\* DROP INDEX IF EXISTS idx_vector_embeddings_embedding
CheckDrop ==
    /\ pc = "check.drop"
    /\ \E fail \in BOOLEAN :
           IF fail THEN CheckThrows("drop", Issued("drop")) /\ UNCHANGED index
           ELSE Goto("check.alter", call, Issued("drop")) /\ index' = "none"
    /\ UNCHANGED <<adapterVars, apiKey, width, rows>>

\* ALTER TABLE vector_embeddings ALTER COLUMN embedding TYPE vector(n)
CheckAlter ==
    /\ pc = "check.alter"
    /\ \E fail \in BOOLEAN :
           IF fail THEN CheckThrows("alter", Issued("alter")) /\ UNCHANGED <<width, rows>>
           ELSE /\ Goto("check.create", call, Issued("alter"))
                /\ width' = hist.recon.target
                /\ rows' = AlterColumnType(rows, hist.recon.target)
    /\ UNCHANGED <<adapterVars, apiKey, index>>

\* CREATE INDEX IF NOT EXISTS .. USING ivfflat ..
CheckCreate ==
    /\ pc = "check.create"
    /\ \E fail \in BOOLEAN :
           IF fail THEN CheckThrows("create", Issued("create")) /\ UNCHANGED index
           ELSE CheckReturns("ok", Issued("create")) /\ index' = "ivfflat"
    /\ UNCHANGED <<adapterVars, apiKey, width, rows>>

\* saveEmbedding: await this.findByContentIdentity(contentType, contentId)
SaveFind ==
    /\ pc = "save.find"
    /\ \E fail \in FailPoints(1) :
           IF Throws(1, fail) THEN EndOfTool(Caught([hist EXCEPT !.dbTouched = TRUE]))
           ELSE Goto("save.save", call, [hist EXCEPT !.dbTouched = TRUE])
    /\ UNCHANGED <<adapterVars, apiKey, width, index, rows>>

\* saveEmbedding: the entity is filled in and saved
SaveSave ==
    /\ pc = "save.save"
    /\ \E fail \in FailPoints(1) :
           LET item == Head(call.queue)
               tool == ToolCatalog[item.tool]
               row == saveEmbeddingRow("tool", contentId(item.server, tool), call.text,
                                       call.embedding, toolMetadata(item.server, tool),
                                       EMBEDDING_MODEL)
           IN  IF Throws(1, fail) \/ Rejects(width, call.embedding)
               THEN EndOfTool(Caught(hist)) /\ UNCHANGED rows
               ELSE /\ EndOfTool([hist EXCEPT !.saved = @ \cup {CurrentId}])
                    /\ rows' = Upsert(rows, row)
    /\ UNCHANGED <<adapterVars, apiKey, width, index>>

\* searchToolsByVector up to its first awaited statement
searchToolsByVector ==
    \E query \in Queries, limit \in Limits, threshold \in Thresholds,
       serverNames \in ServerFilters :
        /\ pc = "idle"
        /\ IF ~shouldUseDatabase THEN Reply(Answer("search", 200, 0, <<>>), NoHist)
           ELSE /\ pc' = "search.embed"
                /\ call' = [IdleCall EXCEPT !.op = "search", !.text = query, !.limit = limit,
                                            !.threshold = threshold,
                                            !.serverNames = serverNames]
                /\ resp' = NoResp
                /\ hist' = NoHist
        /\ UNCHANGED <<adapterVars, apiKey, width, index, rows>>

\* searchByText: const embedding = await getEmbeddingFunc(text)
SearchEmbed ==
    /\ pc = "search.embed"
    /\ \E response \in ServiceResponses :
           Goto("search.query",
                [call EXCEPT !.embedding = generateEmbedding(call.text, response)], hist)
    /\ UNCHANGED <<adapterVars, apiKey, width, index, rows>>

\* filteredResults.map(..) of the request `op`
Mapped(op, results) ==
    [i \in 1..Len(results) |-> IF op = "search" THEN SearchResult(results[i])
                                ELSE ListedTool(results[i])]

QueryStepMutantPropagates(op) ==
    \E fail \in FailPoints(1) :
        LET seen(outcome) == [hist EXCEPT !.dbTouched = TRUE,
                                          !.search = [qlen |-> Length(call.embedding),
                                                      width |-> width,
                                                      outcome |-> outcome]]
        IN  IF Throws(1, fail) THEN Reply(Answer(op, 500, 0, <<>>), seen("db error"))
            ELSE IF Rejects(width, call.embedding)
            THEN Reply(Answer(op, 500, 0, <<>>), seen("dimension mismatch"))
            ELSE \E results \in searchSimilar(rows, call.embedding, call.limit,
                                              call.threshold, {"tool"}) :
                     Reply(Answer(op, 200, 0,
                                  Mapped(op, FilterByServers(results, call.serverNames))),
                           seen("rows"))

\* the similarity query of searchSimilar and what the callers make of its
\* result; a query that throws is caught and an empty list is answered
QueryStep(op) ==
    \E fail \in FailPoints(1) :
        LET seen(outcome) == [hist EXCEPT !.dbTouched = TRUE,
                                          !.search = [qlen |-> Length(call.embedding),
                                                      width |-> width,
                                                      outcome |-> outcome]]
        IN  IF Throws(1, fail) THEN Reply(Answer(op, 200, 0, <<>>), seen("db error"))
            ELSE IF Rejects(width, call.embedding)
            THEN Reply(Answer(op, 200, 0, <<>>), seen("dimension mismatch"))
            ELSE \E results \in searchSimilar(rows, call.embedding, call.limit,
                                              call.threshold, {"tool"}) :
                     Reply(Answer(op, 200, 0,
                                  Mapped(op, FilterByServers(results, call.serverNames))),
                           seen("rows"))

SearchQuery ==
    /\ pc = "search.query"
    /\ QueryStep("search")
    /\ UNCHANGED <<adapterVars, apiKey, width, index, rows>>

\* the limit and the threshold (in tenths) getAllVectorizedTools passes
ListLimit == 1000
ListThreshold == -10

\* getAllVectorizedTools up to its first awaited statement
getAllVectorizedTools ==
    \E serverNames \in ServerFilters :
        /\ pc = "idle"
        /\ IF ~shouldUseDatabase THEN Reply(Answer("listAll", 200, 0, <<>>), NoHist)
           ELSE /\ pc' = "list.introspect"
                /\ call' = [IdleCall EXCEPT !.op = "listAll", !.limit = ListLimit,
                                            !.threshold = ListThreshold,
                                            !.serverNames = serverNames]
                /\ resp' = NoResp
                /\ hist' = NoHist
        /\ UNCHANGED <<adapterVars, apiKey, width, index, rows>>

\* the catalog query of getAllVectorizedTools, whose failure is tolerated,
\* and the zero vector built from its answer
ListIntrospect ==
    /\ pc = "list.introspect"
    /\ \E fail \in FailPoints(1) :
           LET dbDimensions == currentDimensions(atttypmod(width))
               dimensionsToUse == IF Throws(1, fail) THEN DEFAULT_DIMENSIONS
                                  ELSE IF dbDimensions > 0 THEN dbDimensions
                                  ELSE DEFAULT_DIMENSIONS
           IN  Goto("list.query",
                    [call EXCEPT !.embedding = ZeroVector(dimensionsToUse)],
                    [hist EXCEPT !.dbTouched = TRUE,
                                 !.introspection = IF Throws(1, fail) THEN "failed"
                                                   ELSE "answered"])
    /\ UNCHANGED <<adapterVars, apiKey, width, index, rows>>

ListQuery ==
    /\ pc = "list.query"
    /\ QueryStep("listAll")
    /\ UNCHANGED <<adapterVars, apiKey, width, index, rows>>

\* the process is up: the flag is on, the connection came up or did not, the
\* column is as initializeDatabase left it (vector(1536) with its index, or
\* undeclared when that set-up failed), and nothing is stored yet
InitVector ==
    /\ enabled = TRUE
    /\ migrationCompleted = TRUE
    /\ dbGroups = Empty
    /\ connected \in BOOLEAN
    /\ dbServers = MigratedServers
    /\ fileServers = ToolServers
    /\ dbUsers = Empty
    /\ fileUsers = Empty
    /\ dbMarket = {"market-fetch"}
    /\ ret = NoCall
    /\ lastDbAdd = None
    /\ apiKey \in BOOLEAN
    /\ width \in {0, EMBEDDING_DIMENSIONS}
    /\ index = IF width = 0 THEN "none" ELSE "ivfflat"
    /\ rows = {}
    /\ pc = "idle"
    /\ call = IdleCall
    /\ resp = NoResp
    /\ hist = NoHist

NextVector ==
    \/ saveToolsAsVectorEmbeddings
    \/ rebuildServerEmbeddings
    \/ rebuildEmbeddings
    \/ IngestEmbed
    \/ IngestCheck
    \/ CheckDrop
    \/ CheckAlter
    \/ CheckCreate
    \/ SaveFind
    \/ SaveSave
    \/ searchToolsByVector
    \/ SearchEmbed
    \/ SearchQuery
    \/ getAllVectorizedTools
    \/ ListIntrospect
    \/ ListQuery

SpecVector == InitVector /\ [][NextVector]_vars

----------------------------------------------------------------------------
(* The flag switched off: adapter calls and vector requests (SpecDisabled). *)
(* The database holds rows from an earlier time when the flag was on.       *)

\* the record an earlier ingest of weather:getForecast left, embedded offline
StoredRows ==
    LET tool == ToolCatalog["getForecast"]
    IN  {saveEmbeddingRow("tool", contentId("weather", tool), searchableText(tool),
                          generateFallbackEmbedding(searchableText(tool)),
                          toolMetadata("weather", tool), EMBEDDING_MODEL)}

InitDisabled ==
    /\ enabled = FALSE
    /\ migrationCompleted = TRUE
    /\ dbGroups = Empty
    /\ connected \in BOOLEAN
    /\ dbServers = MigratedServers
    /\ fileServers = ToolServers
    /\ dbUsers = Empty
    /\ fileUsers = Empty
    /\ dbMarket = {"market-fetch"}
    /\ ret = NoCall
    /\ lastDbAdd = None
    /\ apiKey \in BOOLEAN
    /\ width = FALLBACK_DIMENSIONS
    /\ index = "ivfflat"
    /\ rows = StoredRows
    /\ pc = "idle"
    /\ call = IdleCall
    /\ resp = NoResp
    /\ hist = NoHist

NextDisabled ==
    \/ getServersInfo
    \/ getServerConfigByName
    \/ addServer
    \/ updateMcpServer
    \/ removeServer
    \/ toggleServerStatus
    \/ getUsers
    \/ findUserByUsername
    \/ createUser
    \/ updateUserPassword
    \/ getMarketServers
    \/ initializeDatabase
    \/ closeDatabase
    \/ saveToolsAsVectorEmbeddings
    \/ rebuildServerEmbeddings
    \/ rebuildEmbeddings
    \/ searchToolsByVector
    \/ getAllVectorizedTools

SpecDisabled == InitDisabled /\ [][NextDisabled]_vars

\* C3: with the flag disabled no operation sends anything to the database.
\* Every adapter call is file-routed and issues no repository call; every
\* vector request returns at once (none is left waiting on a statement) and
\* has touched nothing; the tables, the column and the index stay as they
\* were; search and list-all answer an empty list although a record is
\* stored; ingest stores nothing.
C3_DisabledTouchesNoDatabase ==
    ~enabled =>
        /\ IsCall(ret) => (ret.route = "file" /\ ~ret.dbTouched /\ ~ret.dbThrew /\ ~ret.flag)
        /\ pc = "idle"
        /\ ~hist.dbTouched
        /\ resp.op \in {"search", "listAll"} => resp.results = <<>>
        /\ rows = StoredRows /\ width = FALLBACK_DIMENSIONS /\ index = "ivfflat"
        /\ dbServers = MigratedServers /\ dbUsers = Empty /\ dbMarket = {"market-fetch"}

\* C3 witness: a search was answered with the empty list while the database
\* was connected and held a record, after an addServer that went to the file
C3_Witness ==
    /\ ~enabled /\ connected
    /\ resp.op = "search" /\ resp.results = <<>> /\ rows # {}
    /\ ret.op = "addServer" /\ ret.route = "file" /\ ~ret.threw /\ ret.value.success

----------------------------------------------------------------------------
(* Claims about ingest and the Schema Reconciler (SpecVector) *)

ReconcilerSteps == {"ingest.check", "check.drop", "check.alter", "check.create"}

\* C5: dimension invariant. In every reachable state every stored record's
\* dimensions equals the length of its embedding, also while and right
\* after a reconciliation changed the column's width.
C5_DimensionsIsLength == \A r \in rows : r.dimensions = Length(r.embedding)

\* C5 witness: the reconciler has just altered the column to another width
\* than that of a record stored before, and the record still satisfies C5
C5_Witness ==
    /\ pc = "check.create"
    /\ \E r \in rows : r.dimensions = Length(r.embedding) /\ r.dimensions # width

\* C6 as stated: whenever no request is running, every stored record's
\* dimensions equals the column's configured width.
C6_EveryRecordHasTheWidth == (pc = "idle") => \A r \in rows : r.dimensions = width

\* C7: within the ingest of one tool the order is embed, reconcile, upsert.
\* A step stores a record only as the save of an ingest whose embedding was
\* produced and whose reconciliation for that embedding's length returned
\* without error, and the column's width is by then that length; the upsert
\* is attempted only after the reconciliation returned without error; and a
\* search whose query vector has the column's width is never refused for
\* its dimension.
C7_EmbedReconcileUpsert ==
    /\ [][ (rows' # rows) =>
               /\ pc = "save.save"
               /\ call.embedding # NoVector
               /\ call.checked = "ok"
               /\ hist.recon.outcome = "ok"
               /\ hist.recon.target = Length(call.embedding)
               /\ width = Length(call.embedding)
               /\ width' = width
               /\ \A r \in rows' \ rows : r.dimensions = width ]_vars
    /\ [](pc \in {"save.find", "save.save"} =>
              /\ call.embedding # NoVector
              /\ call.checked \in {"ok", "skipped"}
              /\ hist.recon.outcome = call.checked)
    /\ [](hist.search.outcome # "none" /\ hist.search.qlen = hist.search.width
              => hist.search.outcome \in {"rows", "db error"})

\* C7 witness: the column, which starts undeclared or at 1536, was migrated
\* to the fallback width by an ingest, the record was stored with it, and a
\* following search with a query vector of that width returned the record
C7_Witness ==
    /\ resp.op = "search" /\ Len(resp.results) > 0
    /\ width = FALLBACK_DIMENSIONS
    /\ hist.search.qlen = width /\ hist.search.outcome = "rows"
    /\ \E r \in rows : r.dimensions = width

\* C8: reconciler idempotence. When an invocation of the reconciler follows
\* one for the same target width that returned without error, it issues no
\* DROP INDEX, no ALTER and no CREATE INDEX, and it returns without error
\* (it can throw only if the database fails its catalog query).
C8_SecondReconcileIsNoOp ==
    (/\ hist.prev.outcome \in {"ok", "skipped"}
     /\ hist.recon.outcome # "none"
     /\ hist.recon.target = hist.prev.target)
    => /\ hist.recon.ddl = <<>>
       /\ \/ hist.recon.outcome = hist.prev.outcome
          \/ hist.recon.outcome = "error" /\ hist.recon.failedAt = "introspect"

\* C8 witness: an invocation that migrated the column (drop, alter, create)
\* was followed by one for the same width that returned having issued nothing
C8_Witness ==
    /\ hist.prev.outcome = "ok" /\ hist.prev.ddl = <<"drop", "alter", "create">>
    /\ hist.recon.outcome = "ok" /\ hist.recon.target = hist.prev.target
    /\ hist.recon.ddl = <<>>
    /\ width = hist.recon.target

\* C9: the reconciler changes only the schema. No step of an invocation,
\* whether the invocation ends well or throws, changes the set of stored
\* records or any field of one.
C9_ReconcilerKeepsRecords == [][ (pc \in ReconcilerSteps) => (rows' = rows) ]_vars

\* C9 witness: an invocation altered the width and then threw at CREATE
\* INDEX, and the records stored before are there, of their former width
C9_Witness ==
    /\ hist.recon.outcome = "error" /\ hist.recon.failedAt = "create"
    /\ rows # {}
    /\ \A r \in rows : r.dimensions # width /\ r.dimensions = Length(r.embedding)

\* C10 as stated: a rebuild in which a reconciliation failed is answered
\* with an error outcome, not with success.
C10_ReconcileFailureIsReported ==
    (pc = "idle" /\ resp.op \in {"rebuildServer", "rebuildAll"} /\ hist.reconFailed)
    => ~resp.success

\* C11 as stated: a failure of index creation never fails a reconciliation.
\* When CREATE INDEX throws, the next strategy is tried, and when none is
\* left the reconciliation returns without error and the upsert it was
\* called for is attempted; so no invocation ends in an error raised at the
\* creation of the index.
C11_IndexFailureIsTolerated ==
    ~(hist.recon.outcome = "error" /\ hist.recon.failedAt = "create")

----------------------------------------------------------------------------
(* The repository called directly (SpecSearch): saveEmbedding and          *)
(* searchSimilar of VectorEmbeddingRepository applied to records and query *)
(* vectors of a small width, with the arguments of the last call kept next *)
(* to what it returned.                                                    *)

\* a number[] as the sparse record the model keeps vectors in
Sparse(seq) == [dim |-> Len(seq), at |-> [i \in {j \in 1..Len(seq) : seq[j] # 0} |-> seq[i]]]

\* embeddings handed to saveEmbedding: one direction, one at an angle to
\* it, one opposite to it
StoredVectors == {Sparse(<<1, 0>>), Sparse(<<1, 1>>), Sparse(<<-1, 0>>)}

\* embeddings handed to searchSimilar: a longer vector of the first
\* direction, the second, and the zero vector
QueryVectors == {Sparse(<<2, 0>>), Sparse(<<1, 1>>), ZeroVector(2)}

\* (content_type, content_id) of the records
Identities == {<<"tool", "a">>, <<"tool", "b">>, <<"server", "a">>}
TypeFilters == {{}, {"tool"}}
RepoLimits == {1, 10}
\* thresholds in tenths: -1, 0 and 0.7
RepoThresholds == {-10, 0, 7}

RepoCall(op) ==
    [op |-> op, contentType |-> "", contentId |-> "", embedding |-> NoVector, limit |-> 0,
     threshold |-> 0, contentTypes |-> {}]

RepoResp(op, threw, results) == [op |-> op, threw |-> threw, results |-> results]

\* await vectorRepository.saveEmbedding(contentType, contentId, '', embedding)
saveEmbedding ==
    \E identity \in Identities, embedding \in StoredVectors, fail \in FailPoints(2) :
        LET contentType == identity[1]
            id == identity[2]
            row == saveEmbeddingRow(contentType, id, <<>>, embedding, [serverName |-> ""],
                                    "default")
            threw == Throws(1, fail) \/ Throws(2, fail) \/ Rejects(width, embedding)
        IN  /\ pc = "idle"
            /\ call' = [RepoCall("saveEmbedding") EXCEPT !.contentType = contentType,
                                                         !.contentId = id,
                                                         !.embedding = embedding]
            /\ resp' = RepoResp("saveEmbedding", threw, <<>>)
            /\ rows' = IF threw THEN rows ELSE Upsert(rows, row)
            /\ UNCHANGED <<adapterVars, apiKey, width, index, pc, hist>>

\* await vectorRepository.searchSimilar(embedding, limit, threshold, contentTypes)
searchSimilarCall ==
    \E embedding \in QueryVectors, limit \in RepoLimits, threshold \in RepoThresholds,
       contentTypes \in TypeFilters, fail \in FailPoints(1) :
        LET c == [RepoCall("searchSimilar") EXCEPT !.embedding = embedding, !.limit = limit,
                                                   !.threshold = threshold,
                                                   !.contentTypes = contentTypes]
        IN  /\ pc = "idle"
            /\ call' = c
            /\ IF Throws(1, fail) \/ Rejects(width, embedding)
               THEN resp' = RepoResp("searchSimilar", TRUE, <<>>)
               ELSE \E results \in searchSimilar(rows, embedding, limit, threshold,
                                                 contentTypes) :
                        resp' = RepoResp("searchSimilar", FALSE, results)
            /\ UNCHANGED <<adapterVars, apiKey, width, index, rows, pc, hist>>

\* the table is empty, its column is declared with the width of the vectors
InitSearch ==
    /\ enabled = TRUE
    /\ migrationCompleted = TRUE
    /\ dbGroups = Empty
    /\ connected = TRUE
    /\ dbServers = MigratedServers
    /\ fileServers = ToolServers
    /\ dbUsers = Empty
    /\ fileUsers = Empty
    /\ dbMarket = {"market-fetch"}
    /\ ret = NoCall
    /\ lastDbAdd = None
    /\ apiKey = FALSE
    /\ width = Length(ZeroVector(2))
    /\ index = "ivfflat"
    /\ rows = {}
    /\ pc = "idle"
    /\ call = RepoCall("none")
    /\ resp = RepoResp("none", FALSE, <<>>)
    /\ hist = NoHist

NextSearch ==
    \/ saveEmbedding
    \/ searchSimilarCall

SpecSearch == InitSearch /\ [][NextSearch]_vars

----------------------------------------------------------------------------
(* Claims about the repository's similarity search (SpecSearch) *)

Searched == resp.op = "searchSimilar" /\ ~resp.threw

\* the records a result list holds
Returned(results) == {results[i].embedding : i \in 1..Len(results)}

\* the filter on content_type, when one is given
Wanted(r, contentTypes) == contentTypes = {} \/ r.content_type \in contentTypes

\* C12: what searchSimilar(embedding, limit, threshold, contentTypes)
\* returns. Every entry is a stored record with its similarity to the query
\* vector; no entry has a similarity at or below the threshold (a defined
\* similarity is strictly greater than it); every entry's content type is in
\* the filter when one is given; the entries are ordered by non-increasing
\* similarity, are distinct and at most `limit`; and a matching record is
\* left out only when the list is full, and then no record left out has a
\* higher similarity than a returned one.
C12_SearchSimilarResult ==
    Searched =>
        LET res == resp.results
            sim(r) == Similarity(call.embedding, r.embedding)
            matching == {r \in rows : /\ Wanted(r, call.contentTypes)
                                      /\ Above(sim(r), call.threshold)}
        IN  /\ \A i \in 1..Len(res) :
                   /\ res[i].embedding \in rows
                   /\ res[i].similarity = sim(res[i].embedding)
                   /\ Wanted(res[i].embedding, call.contentTypes)
                   /\ ~IsNaN(res[i].similarity) => Above(res[i].similarity, call.threshold)
            /\ \A i, j \in 1..Len(res) :
                   /\ i < j => AtLeast(res[i].similarity, res[j].similarity)
                   /\ i # j => res[i].embedding # res[j].embedding
            /\ Len(res) <= call.limit
            /\ Len(res) < call.limit => Returned(res) = matching
            /\ \A r \in matching \ Returned(res) :
                   \A x \in Returned(res) : AtLeast(sim(x), sim(r))

\* C12 witness: a search with a filter and a limit of one returned the best
\* tool record, left out a tool record above the threshold but less similar,
\* and left out a record of another content type that was at least as
\* similar as the returned one
C12_Witness ==
    /\ Searched
    /\ call.contentTypes = {"tool"} /\ call.limit = 1 /\ Len(resp.results) = 1
    /\ LET sim(r) == Similarity(call.embedding, r.embedding)
           best == resp.results[1].embedding
       IN  /\ ~IsNaN(sim(best))
           /\ \E r \in rows : /\ r.content_type = "tool" /\ r # best
                              /\ Above(sim(r), call.threshold)
                              /\ ~AtLeast(sim(r), sim(best))
           /\ \E r \in rows : r.content_type = "server" /\ AtLeast(sim(r), sim(best))

\* a result list is ordered by non-increasing similarity
Descending(results) ==
    \A i, j \in 1..Len(results) :
        i < j => AtLeast(results[i].similarity, results[j].similarity)

\* C13 as stated: threshold monotonicity. With the query vector, the table,
\* the limit and the filter of a search that returned, every list the same
\* search can return at a higher threshold holds only records the returned
\* list holds, and both lists are ordered by non-increasing similarity
\* (stated for the query vectors whose similarity is defined).
C13_ThresholdMonotonicity ==
    (Searched /\ Support(call.embedding) # {}) =>
        \A y \in RepoThresholds :
            y > call.threshold =>
                \A higher \in searchSimilar(rows, call.embedding, call.limit, y,
                                            call.contentTypes) :
                    /\ Returned(higher) \subseteq Returned(resp.results)
                    /\ Descending(higher)
                    /\ Descending(resp.results)

----------------------------------------------------------------------------
(* Claims about listing, the round trip and the embedding provider *)

\* the stored tool records the database can compare with a query vector of
\* the column's width
Comparable == {r \in rows : r.content_type = "tool" /\ r.dimensions = width}

IsOne(s) == ~IsNaN(s) /\ s.dot > 0 /\ s.dot * s.dot = s.qq * s.vv

\* C15: round trip (SpecSearch). A record was stored by saveEmbedding with
\* vector v and is there; searchSimilar is called with the same v and
\* threshold 0, with a filter that admits the record's content type if with
\* any, and with a limit greater than the number of other admitted records
\* that match at least as well; then the list returned holds the record,
\* with similarity 1.
C15_RoundTrip ==
    (Searched /\ call.threshold = 0) =>
        \A r \in rows :
            LET sim(x) == Similarity(call.embedding, x.embedding)
                rivals == {x \in rows \ {r} : /\ Wanted(x, call.contentTypes)
                                              /\ AtLeast(sim(x), sim(r))}
            IN  (/\ r.embedding = call.embedding
                 /\ Wanted(r, call.contentTypes)
                 /\ Cardinality(rivals) < call.limit)
                => \E i \in 1..Len(resp.results) :
                       /\ resp.results[i].embedding = r
                       /\ IsOne(resp.results[i].similarity)

\* C15 witness: with a limit of one and another record above the threshold
\* but less similar, the search with a stored record's vector returned that
\* record
C15_Witness ==
    /\ Searched /\ call.threshold = 0 /\ call.limit = 1
    /\ Len(resp.results) = 1
    /\ resp.results[1].embedding.embedding = call.embedding
    /\ IsOne(resp.results[1].similarity)
    /\ \E x \in rows : LET s == Similarity(call.embedding, x.embedding)
                       IN  Above(s, 0) /\ ~IsOne(s) /\ Wanted(x, call.contentTypes)

----------------------------------------------------------------------------
(* The embedding provider called directly (SpecEmbed): the offline         *)
(* vectorizer and generateEmbedding applied to texts, the first vector the *)
(* offline vectorizer gave for each text kept in `hist`.                   *)

\* texts handed to the provider: the empty string, a word of the
\* vocabulary, words in capitals and outside the vocabulary, a text that
\* begins with white space, and the text of a tool
Texts ==
    {<<>>, <<"get">>, <<"Get", "weather", "forecast">>, <<"", "file">>,
     searchableText(ToolCatalog["getAlerts"])}

EmbedCall(op, text, failed, embedding) ==
    [op |-> op, text |-> text, failed |-> failed, embedding |-> embedding]

\* the first vector each text got from the offline vectorizer
Remember(seen, text, embedding) ==
    IF text \in DOMAIN seen THEN seen ELSE seen @@ (text :> embedding)

\* generateFallbackEmbedding(text)
generateFallbackEmbeddingCall ==
    \E text \in Texts :
        LET embedding == generateFallbackEmbedding(text)
        IN  /\ call' = EmbedCall("generateFallbackEmbedding", text, FALSE, embedding)
            /\ hist' = Remember(hist, text, embedding)
            /\ UNCHANGED <<adapterVars, apiKey, width, index, rows, pc, resp>>

\* await generateEmbedding(text): without a key, or with the answer or the
\* rejection of the embedding service
generateEmbeddingCall ==
    \E text \in Texts, response \in ServiceResponses :
        LET embedding == generateEmbedding(text, response)
            failed == apiKey /\ response.error
        IN  /\ call' = EmbedCall("generateEmbedding", text, failed, embedding)
            /\ hist' = IF ~apiKey \/ failed THEN Remember(hist, text, embedding) ELSE hist
            /\ UNCHANGED <<adapterVars, apiKey, width, index, rows, pc, resp>>

InitEmbed ==
    /\ enabled = TRUE
    /\ migrationCompleted = TRUE
    /\ dbGroups = Empty
    /\ connected = TRUE
    /\ dbServers = MigratedServers
    /\ fileServers = ToolServers
    /\ dbUsers = Empty
    /\ fileUsers = Empty
    /\ dbMarket = {"market-fetch"}
    /\ ret = NoCall
    /\ lastDbAdd = None
    /\ apiKey \in BOOLEAN
    /\ width = EMBEDDING_DIMENSIONS
    /\ index = "ivfflat"
    /\ rows = {}
    /\ pc = "idle"
    /\ call = EmbedCall("none", <<>>, FALSE, NoVector)
    /\ resp = NoResp
    /\ hist = <<>>

NextEmbed ==
    \/ generateFallbackEmbeddingCall
    \/ generateEmbeddingCall

SpecEmbed == InitEmbed /\ [][NextEmbed]_vars

C17_ProviderFailureIsRecovered ==
    (call.op = "generateEmbedding") =>
        /\ call.embedding # NoVector
        /\ Length(call.embedding) \in {FALLBACK_DIMENSIONS, EMBEDDING_DIMENSIONS}
        /\ (~apiKey \/ call.failed) =>
               /\ call.embedding = generateFallbackEmbedding(call.text)
               /\ call.text \in DOMAIN hist
               /\ call.embedding = hist[call.text]

\* C17 witness: with an API key configured the request was rejected by the
\* service, and the call returned the 100-component vector the offline
\* vectorizer had given for the same text in a direct call
C17_Witness ==
    /\ call.op = "generateEmbedding" /\ apiKey /\ call.failed
    /\ call.text # <<>>
    /\ Length(call.embedding) = FALLBACK_DIMENSIONS
    /\ call.embedding = hist[call.text]
    /\ Cardinality(DOMAIN hist) >= 2

----------------------------------------------------------------------------
(* Claims about batches of tools (SpecVector) *)

\* the content ids of the tools in `items`
IdsOf(items) == {contentId(items[i].server, ToolCatalog[items[i].tool]) : i \in 1..Len(items)}

\* the tools of the running or last batch whose pass of the loop is over
Visited == IdsOf(SubSeq(hist.batch, 1, Len(hist.batch) - Len(call.queue)))

C19_ToolsCountIsPersistedCount ==
    (pc = "idle" /\ resp.op = "rebuildServer" /\ resp.success)
    => resp.toolsCount = Cardinality(hist.saved)

----------------------------------------------------------------------------
(* The one-time migration (SpecMigration): migrateToDatabase and           *)
(* initializeDbModule, with adapter calls and the operator's changes of    *)
(* the configuration between them. A call is one step; `fail` is the       *)
(* statement of it that throws (0: none) and `at` the record whose save    *)
(* throws when a save does.                                                *)

\* settings.groups: the servers each group of the settings file names
FileGroups == ("g1" :> {"weather", "ghost"})

\* settings.users when the file holds a user
FileUsers == Put(Empty, "admin", [password |-> Hash("pw1"), isAdmin |-> TRUE])

getConfigMutantNeverCompleted == [enabled |-> enabled, migrationCompleted |-> FALSE]

\* DbConfig.getConfig()
getConfig == [enabled |-> enabled, migrationCompleted |-> migrationCompleted]

\* which save of a loop over the records throws, for the statements that
\* are such loops
SavePositions(fail) == IF fail \in {4, 6, 8, 10} THEN 1..Cardinality(MarketCatalog) ELSE {1}

\* the keys inserted by the loop `for (..) await repository.save(..)` when
\* save number `at` throws: those before it, in the order of the loop
SavedBefore(keys, at) ==
    LET order == CHOOSE s \in Orderings(keys) : TRUE
    IN  {order[i] : i \in 1..(Min(at, Len(order)) - 1)}

\* one of migrateUsers .. migrateMarketServers for records with `keys`:
\* nothing when there are none; else clear (statement `first`) and the
\* saves (statement `first` + 1)
ClearAndSave(keys, first, fail, at) ==
    IF keys = {} THEN [threw |-> FALSE, cleared |-> FALSE, keys |-> {}]
    ELSE IF fail = first THEN [threw |-> TRUE, cleared |-> FALSE, keys |-> {}]
    ELSE IF fail = first + 1 THEN [threw |-> TRUE, cleared |-> TRUE, keys |-> SavedBefore(keys, at)]
    ELSE [threw |-> FALSE, cleared |-> TRUE, keys |-> keys]

\* TRUNCATE TABLE "group_server_mappings" CASCADE
TruncateMappings(groups) == [g \in DOMAIN groups |-> {}]

migrateUsers(db, users, fail, at) ==
    LET s == ClearAndSave(DOMAIN users, 3, fail, at)
    IN  [s EXCEPT !.keys = IF s.cleared THEN [u \in s.keys |-> users[u]] ELSE db]

migrateServerConfigs(db, serverConfigs, fail, at) ==
    LET s == ClearAndSave(DOMAIN serverConfigs, 5, fail, at)
    IN  [s EXCEPT !.keys = IF s.cleared
                           THEN [n \in s.keys |-> [enabled |-> serverConfigs[n].enabled # FALSE]]
                           ELSE db]

migrateGroupsMutantBeforeServers(db, groups, servers, fail, at) ==
    LET s == ClearAndSave(DOMAIN groups, 7, fail, at)
    IN  [s EXCEPT !.keys = IF s.cleared
                           THEN [g \in s.keys |-> groups[g] \cap DOMAIN dbServers]
                           ELSE db]

\* each group is saved with the servers of it that server_configs holds
migrateGroups(db, groups, servers, fail, at) ==
    LET s == ClearAndSave(DOMAIN groups, 7, fail, at)
    IN  [s EXCEPT !.keys = IF s.cleared
                           THEN [g \in s.keys |-> groups[g] \cap DOMAIN servers]
                           ELSE db]

migrateMarketServers(db, marketServers, fail, at) ==
    LET s == ClearAndSave(marketServers, 9, fail, at)
    IN  [s EXCEPT !.keys = IF s.cleared THEN s.keys ELSE db]

\* what a call of migrateToDatabase leaves behind and returns
Migrated(success, isConnected, completed, users, servers, groups, market) ==
    [success |-> success, connected |-> isConnected, migrationCompleted |-> completed,
     users |-> users, servers |-> servers, groups |-> groups, market |-> market]

\* migrateToDatabase, its statements in order: the test of the flag,
\* initializeDatabase (1), the TRUNCATE of the join table (2), the four
\* copies (3..10), DbConfig.updateConfig({ migrationCompleted: true }),
\* whose saveSettings can return false (11) or throw (12)
migrateToDatabaseResult(fail, at) ==
    LET kept == Migrated(FALSE, connected, migrationCompleted, dbUsers, dbServers, dbGroups,
                         dbMarket)
        up == [kept EXCEPT !.connected = TRUE]
        g0 == TruncateMappings(dbGroups)
        u == migrateUsers(dbUsers, fileUsers, fail, at)
        s == migrateServerConfigs(dbServers, fileServers, fail, at)
        g1 == IF s.cleared THEN TruncateMappings(g0) ELSE g0
        g == migrateGroups(g1, FileGroups, s.keys, fail, at)
        m == migrateMarketServers(dbMarket, MarketCatalog, fail, at)
    IN  IF getConfig.migrationCompleted THEN kept
        ELSE IF ~connected /\ fail = 1 THEN kept
        ELSE IF fail = 2 THEN up
        ELSE IF u.threw THEN [up EXCEPT !.groups = g0, !.users = u.keys]
        ELSE IF s.threw THEN [up EXCEPT !.groups = g1, !.users = u.keys, !.servers = s.keys]
        ELSE IF g.threw
        THEN [up EXCEPT !.groups = g.keys, !.users = u.keys, !.servers = s.keys]
        ELSE IF m.threw
        THEN [up EXCEPT !.groups = g.keys, !.users = u.keys, !.servers = s.keys,
                        !.market = m.keys]
        ELSE Migrated(fail # 12, TRUE, fail \notin {11, 12}, u.keys, s.keys, g.keys, m.keys)

\* the tables of the database side by side
Tables(users, servers, groups, market) ==
    [users |-> users, servers |-> servers, groups |-> groups, market |-> market]

\* what is remembered of the last migration that copied everything: the
\* tables it left, the users of the file it read, and whether it started
\* from the very tables and file the one before it had left
Remembered(r) ==
    IF r.success
    THEN [op |-> "migrated", db |-> Tables(r.users, r.servers, r.groups, r.market),
          file |-> fileUsers,
          rerun |-> /\ hist.op = "migrated"
                    /\ hist.db = Tables(dbUsers, dbServers, dbGroups, dbMarket)
                    /\ hist.file = fileUsers]
    ELSE hist

\* the step of `op` leaves the database as in `r`; `to` and `pending` are
\* where initializeDbModule stands after it; `fail` is the statement that
\* threw
MigrationStep(op, fail, success, r, to, pending) ==
    /\ ret' = [op |-> op, success |-> success, before |-> getConfig, healthy |-> fail = 0]
    /\ lastDbAdd' = None
    /\ connected' = r.connected
    /\ migrationCompleted' = r.migrationCompleted
    /\ dbUsers' = r.users
    /\ dbServers' = r.servers
    /\ dbGroups' = r.groups
    /\ dbMarket' = r.market
    /\ pc' = to
    /\ call' = pending
    /\ hist' = Remembered(r)
    /\ UNCHANGED <<enabled, fileServers, fileUsers, apiKey, width, index, rows, resp>>

\* a call of migrateToDatabase on its own (a start-up of initializeDbModule
\* may be waiting for its connection meanwhile)
migrateToDatabase ==
    \E fail \in FailPoints(12) : \E at \in SavePositions(fail) :
        LET r == migrateToDatabaseResult(fail, at)
        IN  MigrationStep("migrateToDatabase", fail, r.success, r, pc, call)

\* initializeDbModule up to `await initializeDatabase()`: it reads the
\* configuration once and returns false when the flag is off
initializeDbModule ==
    /\ pc = "idle"
    /\ LET kept == Migrated(FALSE, connected, migrationCompleted, dbUsers, dbServers,
                            dbGroups, dbMarket)
       IN  IF ~getConfig.enabled
           THEN MigrationStep("initializeDbModule", 0, FALSE, kept, "idle", NoCall)
           ELSE MigrationStep("initializeDbModule.await", 0, FALSE, kept, "module.connect",
                              [op |-> "initializeDbModule", dbConfig |-> getConfig])

\* initializeDbModule from the end of initializeDatabase: with the
\* configuration it read at its start, return true or call migrateToDatabase
initializeDbModuleConnected ==
    /\ pc = "module.connect"
    /\ \E fail \in FailPoints(12) : \E at \in SavePositions(fail) :
        LET kept == Migrated(FALSE, connected, migrationCompleted, dbUsers, dbServers,
                             dbGroups, dbMarket)
            r == migrateToDatabaseResult(fail, at)
            op == "initializeDbModule"
        IN  IF ~connected /\ fail = 1 THEN MigrationStep(op, fail, FALSE, kept, "idle", NoCall)
            ELSE IF call.dbConfig.migrationCompleted
            THEN MigrationStep(op, fail, TRUE, [kept EXCEPT !.connected = TRUE], "idle", NoCall)
            ELSE MigrationStep(op, fail, r.success, [r EXCEPT !.connected = TRUE], "idle", NoCall)

\* the operator sets migrationCompleted back to false in the configuration
resetMigrationCompleted ==
    /\ migrationCompleted
    /\ migrationCompleted' = FALSE
    /\ ret' = NoCall
    /\ lastDbAdd' = None
    /\ UNCHANGED <<enabled, connected, dbServers, fileServers, dbUsers, fileUsers, dbMarket,
                   dbGroups, vectorVars>>

\* a fresh database next to a settings file with a server, groups, the
\* market catalog and with or without users
InitMigration ==
    /\ enabled \in BOOLEAN
    /\ migrationCompleted = FALSE
    /\ dbGroups = Empty
    /\ connected = FALSE
    /\ dbServers = Empty
    /\ fileServers = InitialFileServers
    /\ dbUsers = Empty
    /\ fileUsers \in {Empty, FileUsers}
    /\ dbMarket = {}
    /\ ret = NoCall
    /\ lastDbAdd = None
    /\ apiKey = FALSE
    /\ width = 0
    /\ index = "none"
    /\ rows = {}
    /\ pc = "idle"
    /\ call = NoCall
    /\ resp = NoCall
    /\ hist = NoCall

NextMigration ==
    \/ migrateToDatabase
    \/ initializeDbModule
    \/ initializeDbModuleConnected
    \/ resetMigrationCompleted
    \/ updateConfig
    \/ closeDatabase
    \/ createUser

SpecMigration == InitMigration /\ [][NextMigration]_vars

MigrationOps == {"migrateToDatabase", "initializeDbModule", "initializeDbModule.await"}

\* every record of the settings file is in the tables of `r`
Copied(users, servers, groups, market) ==
    /\ \A u \in DOMAIN fileUsers : u \in DOMAIN users /\ users[u] = fileUsers[u]
    /\ \A n \in DOMAIN fileServers : n \in DOMAIN servers
    /\ \A g \in DOMAIN FileGroups :
           g \in DOMAIN groups /\ groups[g] = FileGroups[g] \cap DOMAIN fileServers
    /\ MarketCatalog \subseteq market

\* C20: the migration runs at most once. A call of migrateToDatabase or
\* initializeDbModule made while migrationCompleted is true changes no row
\* of the database and leaves the flag true; the flag goes from false to
\* true only in such a call that succeeds, and then the users, server
\* configs, groups and market servers of the file are all in the database.
C20_MigrationRunsAtMostOnce ==
    [][ /\ ((ret'.op \in MigrationOps /\ migrationCompleted)
              => (/\ UNCHANGED <<dbUsers, dbServers, dbGroups, dbMarket>>
                  /\ migrationCompleted'))
        /\ ((~migrationCompleted /\ migrationCompleted')
              => (/\ ret'.op \in MigrationOps
                  /\ ret'.success
                  /\ Copied(dbUsers', dbServers', dbGroups', dbMarket'))) ]_vars

\* a call made after the migration, when the database has since been
\* given a user the file does not hold and a copy of the file's users would
\* have cleared the table: the user is still there
C20_Witness ==
    /\ ret.op \in MigrationOps
    /\ ret.before.migrationCompleted
    /\ migrationCompleted
    /\ DOMAIN FileGroups \subseteq DOMAIN dbGroups
    /\ DOMAIN fileUsers # {}
    /\ \E u \in DOMAIN dbUsers : u \notin DOMAIN fileUsers

\* the last step was a call of migrateToDatabase that returned success
MigrationSucceeded == ret.op = "migrateToDatabase" /\ ret.success

\* C21: after a successful migrateToDatabase the records of each entity
\* group in the database are those of the file (users, server configs,
\* groups, market servers), whatever the database held before, also when
\* the file holds none of a group.
C21_DatabaseEqualsFile ==
    MigrationSucceeded
        => (/\ DOMAIN dbUsers = DOMAIN fileUsers
            /\ DOMAIN dbServers = DOMAIN fileServers
            /\ DOMAIN dbGroups = DOMAIN FileGroups
            /\ dbMarket = MarketCatalog)

\* the database and the file are as the last complete migration left and
\* read them, and the flag has been set back to false
ReadyToRerun ==
    /\ hist.op = "migrated"
    /\ hist.db = Tables(dbUsers, dbServers, dbGroups, dbMarket)
    /\ hist.file = fileUsers
    /\ ~migrationCompleted

\* C22: the migration is idempotent. When migrationCompleted has been reset
\* and migrateToDatabase runs again on the same file and on the database
\* the run before left, it succeeds unless a statement fails, and a run
\* that succeeds leaves the tables as the run before left them, the
\* servers of each group included.
C22_MigrationIsIdempotent ==
    [][ (ReadyToRerun /\ ret'.op = "migrateToDatabase")
          => (/\ ret'.healthy => ret'.success
              /\ ret'.success
                   => (/\ Tables(dbUsers', dbServers', dbGroups', dbMarket') = hist.db
                       /\ hist'.rerun)) ]_vars

\* a second run that succeeded on the tables the first had left, with
\* users, a server and a group that names it in them
C22_Witness ==
    /\ MigrationSucceeded
    /\ hist.op = "migrated"
    /\ hist.rerun
    /\ hist.db = Tables(dbUsers, dbServers, dbGroups, dbMarket)
    /\ DOMAIN dbUsers # {}
    /\ \E g \in DOMAIN dbGroups : dbGroups[g] # {}

----------------------------------------------------------------------------
(* Bulk ingestion and the requests of the controller *)

\* the servers mcpService holds that are connected, not disabled and have
\* a tool
ActiveServers ==
    {n \in DOMAIN fileServers : /\ fileServers[n].status = "connected"
                                /\ fileServers[n].enabled
                                /\ fileServers[n].tools # <<>>}

\* rebuildAll has answered, the flag is on, the list of servers came from
\* the database without a failure and no statement of the ingest failed
RebuiltAllHealthy ==
    /\ pc = "idle"
    /\ resp.op = "rebuildAll"
    /\ resp.success
    /\ shouldUseDatabase
    /\ hist.catalog = "db"
    /\ hist.failed = {}

\* C23: after rebuildAll has completed with database routing on and the
\* database and the provider healthy, every tool of every active server
\* has a record of content type "tool" and content id "{server}:{tool}".
C23_BulkIngestCoversActiveCatalog ==
    RebuiltAllHealthy
        => \A n \in ActiveServers : \A i \in DOMAIN fileServers[n].tools :
               \E r \in rows :
                   /\ r.content_type = "tool"
                   /\ r.content_id = contentId(n, ToolCatalog[fileServers[n].tools[i]])

----------------------------------------------------------------------------
(* The search request of the controller (SpecRequest): searchTools reads   *)
(* req.query, answers 400 or computes the arguments of searchToolsByVector *)
(* and awaits it. A value of req.query is absent, a string or an array of  *)
(* strings; the strings that are parsed as numbers are sequences of        *)
(* characters.                                                             *)

RawAbsent == [type |-> "undefined"]
RawString(v) == [type |-> "string", value |-> v]
RawArray(v) == [type |-> "object", value |-> v]
RawNumber(n) == [type |-> "number", value |-> n]

\* req.query.query: absent, empty, a text, `?query=a&query=b`
RawQueries ==
    {RawAbsent, RawString(<<>>), RawString(<<"weather", "forecast">>),
     RawArray(<<<<"weather">>, <<"forecast">>>>)}

\* req.query.limit
RawLimits ==
    {RawAbsent, RawString(<<"5">>), RawString(<<"0">>), RawString(<<"1", "5", "0">>),
     RawString(<<"-", "3">>), RawString(<<"a", "b", "c">>)}

\* req.query.threshold
RawThresholds ==
    {RawAbsent, RawString(<<"0">>), RawString(<<"0", ".", "3">>),
     RawString(<<"1", ".", "5">>), RawString(<<"-", "1">>), RawString(<<"x">>)}

\* req.query.servers: the pieces between the commas
RawServers == {RawAbsent, RawString(<<"weather">>), RawString(<<"", " ">>)}

TruthyMutantEmptyString(x) == x.type # "undefined"

\* !x is false
Truthy(x) ==
    CASE x.type = "undefined" -> FALSE
      [] x.type = "string" -> x.value # <<>>
      [] x.type = "number" -> x.value # 0
      [] OTHER -> TRUE

NaN == [nan |-> TRUE, value |-> 0]
Num(n) == [nan |-> FALSE, value |-> n]

DecimalDigits == <<"0", "1", "2", "3", "4", "5", "6", "7", "8", "9">>
IsDigit(c) == \E i \in DOMAIN DecimalDigits : DecimalDigits[i] = c
DigitOf(c) == (CHOOSE i \in DOMAIN DecimalDigits : DecimalDigits[i] = c) - 1

RECURSIVE TrimStart(_)
TrimStart(s) == IF s # <<>> /\ Head(s) = " " THEN TrimStart(Tail(s)) ELSE s

RECURSIVE LeadingDigits(_)
LeadingDigits(s) ==
    IF s # <<>> /\ IsDigit(Head(s)) THEN <<Head(s)>> \o LeadingDigits(Tail(s)) ELSE <<>>

RECURSIVE DigitsValue(_)
DigitsValue(ds) ==
    IF ds = <<>> THEN 0
    ELSE DigitsValue(SubSeq(ds, 1, Len(ds) - 1)) * 10 + DigitOf(ds[Len(ds)])

\* the sign in front of a number and what follows it
Signed(s) ==
    LET body == TrimStart(s)
    IN  IF body # <<>> /\ Head(body) \in {"+", "-"}
        THEN [sign |-> IF Head(body) = "-" THEN -1 ELSE 1, rest |-> Tail(body)]
        ELSE [sign |-> 1, rest |-> body]

\* parseInt(x): the integer the longest numeric prefix of String(x) spells
\* in base ten, NaN when there is none
parseInt(x) ==
    IF x.type = "number" THEN Num(x.value)
    ELSE IF x.type # "string" THEN NaN
    ELSE LET p == Signed(x.value)
             digits == LeadingDigits(p.rest)
         IN  IF digits = <<>> THEN NaN ELSE Num(p.sign * DigitsValue(digits))

\* parseFloat(x) in tenths (the strings parsed here have at most one
\* decimal); a number is handed over in tenths already
parseFloat(x) ==
    IF x.type = "number" THEN Num(x.value)
    ELSE IF x.type # "string" THEN NaN
    ELSE LET p == Signed(x.value)
             whole == LeadingDigits(p.rest)
             after == SubSeq(p.rest, Len(whole) + 1, Len(p.rest))
             decimals == IF after # <<>> /\ Head(after) = "."
                         THEN LeadingDigits(Tail(after)) ELSE <<>>
         IN  IF whole = <<>> /\ decimals = <<>> THEN NaN
             ELSE Num(p.sign * (DigitsValue(whole) * 10
                                + (IF decimals = <<>> THEN 0 ELSE DigitOf(Head(decimals)))))

\* x || d for a number x
OrElse(x, d) == IF x.nan \/ x.value = 0 THEN d ELSE x.value

Max(a, b) == IF a >= b THEN a ELSE b

\* const { limit = 10 } = req.query
Defaulted(x, d) == IF x.type = "undefined" THEN RawNumber(d) ELSE x

\* limitNum
limitNum(limit) == Min(Max(OrElse(parseInt(Defaulted(limit, 10)), 10), 1), 100)

\* thresholdNum, in tenths
thresholdNum(threshold) == Min(Max(OrElse(parseFloat(Defaulted(threshold, 7)), 7), 0), 10)

\* servers.split(',').map((s) => s.trim()).filter(Boolean): the names left
trimmed(piece) == IF piece = " " THEN "" ELSE piece
serverNamesOf(servers) ==
    IF ~Truthy(servers) \/ servers.type # "string" THEN {}
    ELSE {trimmed(servers.value[i]) : i \in DOMAIN servers.value} \ {""}

Request(query, limit, threshold, servers) ==
    [op |-> "searchTools", query |-> query, limit |-> limit, threshold |-> threshold,
     servers |-> servers]

\* searchTools up to the first awaited statement of searchToolsByVector
searchTools ==
    \E query \in RawQueries, limit \in RawLimits, threshold \in RawThresholds,
       servers \in RawServers :
        /\ pc = "idle"
        /\ LET h == [NoHist EXCEPT !.request = Request(query, limit, threshold, servers)]
           IN  IF ~Truthy(query) \/ query.type # "string"
               THEN Reply(Answer("search", 400, 0, <<>>), h)
               ELSE IF ~shouldUseDatabase THEN Reply(Answer("search", 200, 0, <<>>), h)
               ELSE /\ pc' = "search.embed"
                    /\ call' = [IdleCall EXCEPT !.op = "search", !.text = query.value,
                                                !.limit = limitNum(limit),
                                                !.threshold = thresholdNum(threshold),
                                                !.serverNames = serverNamesOf(servers)]
                    /\ resp' = NoResp
                    /\ hist' = h
        /\ UNCHANGED <<adapterVars, apiKey, width, index, rows>>

\* a record as saveToolsAsVectorEmbeddings stores it without an API key
ToolRow(serverName, name) ==
    LET tool == ToolCatalog[name]
    IN  saveEmbeddingRow("tool", contentId(serverName, tool), searchableText(tool),
                         generateFallbackEmbedding(searchableText(tool)),
                         toolMetadata(serverName, tool), EMBEDDING_MODEL)

\* metadata: Record<string, any> = {}
DefaultMetadata ==
    [serverName |-> "", toolName |-> "", description |-> <<>>,
     inputSchema |-> [properties |-> <<>>]]

\* a record saved through saveEmbedding with its default metadata and model
LegacyRow ==
    LET text == <<"weather_getForecast", "Get", "weather", "forecast">>
    IN  saveEmbeddingRow("tool", "weather:weather_getForecast", text,
                         generateFallbackEmbedding(text), DefaultMetadata, "default")

\* another, whose first word has no underscore
PlainRow ==
    LET text == <<"forecast", "weather", "map">>
    IN  saveEmbeddingRow("tool", "maps:forecast", text, generateFallbackEmbedding(text),
                         DefaultMetadata, "default")

\* the tools of two servers, stored while both were active, and two records
\* stored without metadata
RequestRows ==
    {ToolRow("weather", "getForecast"), ToolRow("weather", "getAlerts"),
     ToolRow("files", "readFile"), LegacyRow, PlainRow}

InitRequest ==
    /\ enabled \in BOOLEAN
    /\ migrationCompleted = TRUE
    /\ dbGroups = Empty
    /\ connected = TRUE
    /\ dbServers = MigratedServers
    /\ fileServers = ToolServers
    /\ dbUsers = Empty
    /\ fileUsers = Empty
    /\ dbMarket = {"market-fetch"}
    /\ ret = NoCall
    /\ lastDbAdd = None
    /\ apiKey = FALSE
    /\ width = FALLBACK_DIMENSIONS
    /\ index = "ivfflat"
    /\ rows = RequestRows
    /\ pc = "idle"
    /\ call = IdleCall
    /\ resp = NoResp
    /\ hist = NoHist

NextRequest ==
    \/ searchTools
    \/ SearchEmbed
    \/ SearchQuery

SpecRequest == InitRequest /\ [][NextRequest]_vars

\* the query of the request is missing, empty or not a string
BadQuery(request) ==
    \/ request.query.type # "string"
    \/ request.query.value = <<>>

\* C24: a search request whose query is missing, empty or not a string is
\* answered 400 in the step that reads it: no embedding is computed and no
\* statement is sent to the store.
C24_BadQueryIsRejectedFirst ==
    [][ (hist'.request.op = "searchTools" /\ BadQuery(hist'.request))
          => (/\ pc = "idle" /\ pc' = "idle"
              /\ resp'.status = 400
              /\ ~resp'.success
              /\ ~hist'.dbTouched
              /\ hist'.search = NoSearch
              /\ call' = IdleCall
              /\ rows' = rows) ]_vars

\* a request without a query was answered 400
C24_Witness ==
    /\ pc = "idle"
    /\ hist.request.op = "searchTools"
    /\ hist.request.query = RawAbsent
    /\ resp.status = 400

\* the request gives a limit or a threshold that spells no number
NotNumeric(request) ==
    \/ request.limit.type = "string" /\ parseInt(request.limit).nan
    \/ request.threshold.type = "string" /\ parseFloat(request.threshold).nan

\* C25: a search request whose limit or threshold is not numeric is
\* answered with a client error (400) before any embedding or search work
\* begins (seen with database routing on, where a request that is let
\* through is embedded and searched).
C25_NonNumericIsRejected ==
    (/\ hist.request.op = "searchTools"
     /\ ~BadQuery(hist.request)
     /\ NotNumeric(hist.request)
     /\ shouldUseDatabase)
        => (pc = "idle" /\ resp.status = 400 /\ ~hist.dbTouched)

\* the value of [lo, hi] nearest to the number a parameter spells, `d`
\* when the parameter is absent
Clamped(x, parsed, lo, hi, d) ==
    IF x.type = "undefined" THEN d ELSE Min(Max(parsed.value, lo), hi)

\* C26: the limit handed to the search is min(max(n, 1), 100) for every
\* integer n supplied and the threshold is min(max(t, 0), 1) for every
\* number t supplied (0 gives threshold 0, limit 0 gives 1); an absent
\* parameter gives limit 10 and threshold 0.7.
C26_ParametersAreClamped ==
    (/\ pc = "search.embed"
     /\ hist.request.op = "searchTools"
     /\ ~NotNumeric(hist.request))
        => (/\ call.limit = Clamped(hist.request.limit, parseInt(hist.request.limit),
                                    1, 100, 10)
            /\ call.threshold = Clamped(hist.request.threshold,
                                        parseFloat(hist.request.threshold), 0, 10, 7))

\* rebuildForServer has answered a request that named a server, and the
\* list of servers it read came without a failure
RebuiltServer ==
    /\ pc = "idle"
    /\ resp.op = "rebuildServer"
    /\ hist.request.op = "rebuildServer"
    /\ hist.request.serverName # ""
    /\ resp.status # 500

\* nothing was embedded, reconciled or stored for the request
NoIngestWork ==
    /\ hist.batch = <<>>
    /\ hist.recon = NoRecon
    /\ hist.saved = {}
    /\ hist.failed = {}

\* the answers of rebuildForServer to a server that is unknown or not
\* active
RebuildRefusals ==
    RebuiltServer
        => LET n == hist.request.serverName
           IN  /\ n \notin DOMAIN fileServers => resp.status = 404
               /\ (n \in DOMAIN fileServers /\ n \notin ActiveServers) => resp.status = 400
               /\ resp.status # 200 => NoIngestWork
               /\ resp.status = 200
                    => (/\ n \in ActiveServers
                        /\ resp.toolsCount = Len(fileServers[n].tools))

\* C27: rebuildForServer answers 404 for a server that is not known, 400
\* for one that is not connected, is disabled or has no tools, does no
\* ingest work in these cases, and otherwise ingests the tools of the
\* server and answers success with toolsCount.
C27_RebuildForServerAnswers ==
    /\ RebuildRefusals
    /\ (RebuiltServer /\ hist.request.serverName \in ActiveServers)
           => (/\ resp.status = 200
               /\ resp.toolsCount = Len(fileServers[hist.request.serverName].tools)
               /\ hist.batch # <<>>)

\* the entries of a result list whose serverName is in S, in their order
OfServers(entries, S) == SelectSeq(entries, LAMBDA e : e.serverName \in S)

\* C28: the filter by server names comes after the ranking and changes
\* nothing else: for a non-empty set S the answer is the list of those
\* entries of the unfiltered answer, in the same order, whose returned
\* serverName is in S.
C28_ServerFilterIsASubList ==
    [][ (/\ pc = "search.query"
         /\ hist'.search.outcome = "rows"
         /\ call.serverNames # {})
          => \E ranked \in searchSimilar(rows, call.embedding, call.limit, call.threshold,
                                         {"tool"}) :
                 resp'.results = OfServers(Mapped("search", ranked), call.serverNames) ]_vars

\* the record an entry of the answer was made from
RowOf(e) == CHOOSE r \in rows : r.text_content = e.searchableText

\* the word s is what precedes the first underscore of the word w
BeforeUnderscore(s, w) ==
    /\ 95 \notin {CharCodes[s][i] : i \in DOMAIN CharCodes[s]}
    /\ Len(CharCodes[w]) > Len(CharCodes[s])
    /\ SubSeq(CharCodes[w], 1, Len(CharCodes[s]) + 1) = CharCodes[s] \o <<95>>

\* C29: an entry of a search answer carries the serverName, toolName,
\* description and inputSchema of its record's metadata when that names a
\* server and a tool; otherwise toolName is the first word of text_content,
\* serverName what precedes the first underscore of that word ("unknown"
\* when it has none), description the rest of the text, and inputSchema is
\* empty.
C29_ResultReconstruction ==
    (pc = "idle" /\ resp.op = "search" /\ resp.status = 200)
        => \A i \in DOMAIN resp.results :
               LET e == resp.results[i]
                   r == RowOf(e)
                   m == r.metadata
                   word == Head(r.text_content)
               IN  IF m.serverName # "" /\ m.toolName # ""
                   THEN /\ e.serverName = m.serverName
                        /\ e.toolName = m.toolName
                        /\ e.description = m.description
                        /\ e.inputSchema = m.inputSchema
                   ELSE /\ e.toolName = word
                        /\ IF 95 \in {CharCodes[word][j] : j \in DOMAIN CharCodes[word]}
                           THEN BeforeUnderscore(e.serverName, word)
                           ELSE e.serverName = "unknown"
                        /\ e.description = Tail(r.text_content)
                        /\ e.inputSchema = [properties |-> <<>>]

\* an answer with an entry taken from metadata, one parsed from a word with
\* an underscore and one parsed from a word without
C29_Witness ==
    /\ pc = "idle"
    /\ resp.op = "search"
    /\ \E i, j, k \in DOMAIN resp.results :
           /\ resp.results[i].toolName = "getForecast"
           /\ resp.results[i].serverName = "weather"
           /\ resp.results[j].toolName = "weather_getForecast"
           /\ resp.results[j].serverName = "weather"
           /\ resp.results[k].toolName = "forecast"
           /\ resp.results[k].serverName = "unknown"

\* ---------------------------------------------------------------------------
\* C30: shape normalization. Whenever a database-routed read succeeds and
\* returns a record, the record has the fields the file-backed implementation
\* returns and is never the raw database entity; stated here for
\* getServerConfigByName, which the claim names.
FoundInDatabase ==
    /\ ret.op = "getServerConfigByName"
    /\ ret.route = "db"
    /\ ~ret.threw
    /\ ret.value # Null

C30_DatabaseValuesAreNormalized ==
    FoundInDatabase =>
        /\ ret.value.shape = "config"
        /\ DOMAIN ret.value = {"shape", "enabled"}

----------------------------------------------------------------------------
(* Claims about the identity of stored records (SpecSearch) *)

SameIdentity(a, b) == a.content_type = b.content_type /\ a.content_id = b.content_id

\* at most one record for each (content_type, content_id)
UniqueIdentity(table) == \A a, b \in table : SameIdentity(a, b) => a = b

\* the records of `table` with another identity than `row`
Others(table, row) == {r \in table : ~SameIdentity(r, row)}

\* records saveEmbedding can be asked to store: every identity with two
\* texts, two vectors, two metadata objects and two model names
Revisions ==
    {saveEmbeddingRow(id[1], id[2], text, embedding, metadata, model) :
         id \in Identities, text \in {<<>>, <<"weather">>},
         embedding \in {Sparse(<<1, 0>>), Sparse(<<-1, 0>>)},
         metadata \in {DefaultMetadata, [serverName |-> ""]},
         model \in {"default", EMBEDDING_MODEL}}

\* C31: upsert keeps identity unique. After every saveEmbedding that
\* returns, the table holds at most one record for each (content_type,
\* content_id); the record of the call's identity carries the text, the
\* embedding, its length as dimensions, the metadata and the model of the
\* call; and every record of another identity is as it was. The same holds
\* for one more upsert of any record, whatever its text, vector, metadata
\* and model.
C31_UpsertKeepsIdentityUnique ==
    [][ (resp'.op = "saveEmbedding" /\ ~resp'.threw) =>
            LET row == saveEmbeddingRow(call'.contentType, call'.contentId, <<>>,
                                        call'.embedding, [serverName |-> ""], "default")
            IN  /\ UniqueIdentity(rows')
                /\ row \in rows'
                /\ row.dimensions = Length(call'.embedding)
                /\ Others(rows', row) = Others(rows, row)
                /\ \A next \in Revisions :
                       LET after == Upsert(rows', next)
                       IN  /\ UniqueIdentity(after)
                           /\ next \in after
                           /\ Others(after, next) = Others(rows', next) ]_vars

\* a saveEmbedding returned whose record is in the table next to a record
\* of each other identity, one of them stored with another vector
C31_Witness ==
    /\ resp.op = "saveEmbedding" /\ ~resp.threw
    /\ hist = NoHist
    /\ Cardinality(rows) = Cardinality(Identities)
    /\ \E r \in rows : /\ r.content_type = call.contentType
                        /\ r.content_id = call.contentId
                        /\ r.embedding = Sparse(<<-1, 0>>)
    /\ \E r \in rows : r.content_id # call.contentId /\ r.embedding = Sparse(<<1, 1>>)

----------------------------------------------------------------------------
(* Claims about the model name of stored records (SpecVector) *)

\* the vector of record `r` is the one the offline vectorizer gives for its
\* text (the embedding service answers with vectors of another length)
FromFallback(r) == r.embedding = generateFallbackEmbedding(r.text_content)

\* C32: the model field of every stored record names the strategy that
\* produced its vector; a record whose vector came from the offline
\* fallback vectorizer is never labelled with the name of the primary
\* model.
C32_ModelNamesTheProducer ==
    \A r \in rows : FromFallback(r) => r.model # EMBEDDING_MODEL

----------------------------------------------------------------------------
(* Claims about failures of search and list-all (SpecVector) *)

\* the statements of searchToolsByVector and getAllVectorizedTools
ReadLabels == {"search.embed", "search.query", "list.introspect", "list.query"}

\* the similarity query of the request threw: the database failed, or the
\* query vector has another length than the column's width
QueryFailed(h) == h.search.outcome \in {"db error", "dimension mismatch"}

\* C33 as stated: search and list-all never propagate an error; on any
\* failure of embedding, schema introspection or the store query they
\* return an empty list, and they leave the records and the schema as they
\* were.
C33_FailuresGiveEmptyLists ==
    [][ (pc \in ReadLabels) =>
            /\ rows' = rows /\ width' = width /\ index' = index
            /\ (pc' = "idle") =>
                   /\ resp'.status = 200
                   /\ (QueryFailed(hist') \/ hist'.introspection = "failed")
                          => resp'.results = <<>> ]_vars

\* C33 amended: search and list-all never propagate an error and leave the
\* records and the schema as they were; when the similarity query fails
\* (a query vector of another length than the column's width included)
\* they return an empty list. A failed catalog query of list-all is
\* replaced by the default width, and the list is then whatever the
\* similarity query gives.
C33_QueryFailuresGiveEmptyLists ==
    [][ (pc \in ReadLabels) =>
            /\ rows' = rows /\ width' = width /\ index' = index
            /\ (pc' = "idle") =>
                   /\ resp'.status = 200
                   /\ QueryFailed(hist') => resp'.results = <<>> ]_vars

\* a search whose query vector had another length than the column's width
\* returned the empty list over a table that holds records
C33_Witness ==
    /\ pc = "idle" /\ resp.op = "search" /\ resp.status = 200
    /\ hist.search.outcome = "dimension mismatch"
    /\ resp.results = <<>>
    /\ rows # {}

----------------------------------------------------------------------------
(* Concurrent ingest calls (SpecConcurrent): saveToolsAsVectorEmbeddings   *)
(* entered by several callers, each for one tool of server weather. Every  *)
(* awaited statement is a step of its caller, and the steps of different  *)
(* callers interleave freely: the code takes no lock and opens no         *)
(* transaction around checkDatabaseVectorDimensions and saveEmbedding.     *)
(* `pc` and `call` hold one entry for each caller; `hist` holds the last   *)
(* upsert that was issued.                                                 *)

\* how many callers are in saveToolsAsVectorEmbeddings at a time
ConcurrentCalls == 2

Callers == 1..ConcurrentCalls

\* the tool each caller ingests
CallerTool == [p \in Callers |-> IF p = 1 THEN "getForecast" ELSE "getAlerts"]

NoUpsert == [op |-> "none", caller |-> 0, length |-> 0, width |-> 0, stored |-> FALSE]

\* caller p moves to `label`, holding text and embedding
Moves(p, label, text, embedding) ==
    /\ pc' = [pc EXCEPT ![p] = label]
    /\ call' = [call EXCEPT ![p] = [text |-> text, embedding |-> embedding]]

\* caller p goes on to `label` with what it holds
Proceeds(p, label) == Moves(p, label, call[p].text, call[p].embedding)

\* catch (toolError), or the end of the loop: caller p returns
ReturnsToCaller(p) == Moves(p, "idle", <<>>, NoVector)

\* saveToolsAsVectorEmbeddings('weather', [tool]) entered by caller p
ConcurrentIngest(p) ==
    /\ pc[p] = "idle"
    /\ shouldUseDatabase
    /\ Moves(p, "ingest.embed", searchableText(ToolCatalog[CallerTool[p]]), NoVector)
    /\ UNCHANGED <<adapterVars, apiKey, width, index, rows, resp, hist>>

\* const embedding = await generateEmbedding(searchableText)
ConcurrentEmbed(p) ==
    /\ pc[p] = "ingest.embed"
    /\ \E response \in ServiceResponses :
           Moves(p, "ingest.check", call[p].text, generateEmbedding(call[p].text, response))
    /\ UNCHANGED <<adapterVars, apiKey, width, index, rows, resp, hist>>

\* checkDatabaseVectorDimensions(embedding.length): the catalog query and
\* the comparison
ConcurrentCheck(p) ==
    /\ pc[p] = "ingest.check"
    /\ \E fail \in BOOLEAN :
           IF fail THEN ReturnsToCaller(p)
           ELSE IF NeedsAlter(currentDimensions(atttypmod(width)), Length(call[p].embedding))
           THEN Proceeds(p, "check.drop")
           ELSE Proceeds(p, "save.find")
    /\ UNCHANGED <<adapterVars, apiKey, width, index, rows, resp, hist>>

\* DROP INDEX IF EXISTS idx_vector_embeddings_embedding
ConcurrentDrop(p) ==
    /\ pc[p] = "check.drop"
    /\ \E fail \in BOOLEAN :
           IF fail THEN ReturnsToCaller(p) /\ UNCHANGED index
           ELSE Proceeds(p, "check.alter") /\ index' = "none"
    /\ UNCHANGED <<adapterVars, apiKey, width, rows, resp, hist>>

\* ALTER TABLE vector_embeddings ALTER COLUMN embedding TYPE vector(n)
ConcurrentAlter(p) ==
    /\ pc[p] = "check.alter"
    /\ \E fail \in BOOLEAN :
           IF fail THEN ReturnsToCaller(p) /\ UNCHANGED <<width, rows>>
           ELSE /\ Proceeds(p, "check.create")
                /\ width' = Length(call[p].embedding)
                /\ rows' = AlterColumnType(rows, Length(call[p].embedding))
    /\ UNCHANGED <<adapterVars, apiKey, index, resp, hist>>

\* CREATE INDEX IF NOT EXISTS .. USING ivfflat ..
ConcurrentCreate(p) ==
    /\ pc[p] = "check.create"
    /\ \E fail \in BOOLEAN :
           IF fail THEN ReturnsToCaller(p) /\ UNCHANGED index
           ELSE Proceeds(p, "save.find") /\ index' = "ivfflat"
    /\ UNCHANGED <<adapterVars, apiKey, width, rows, resp, hist>>

\* saveEmbedding: await this.findByContentIdentity(contentType, contentId)
ConcurrentFind(p) ==
    /\ pc[p] = "save.find"
    /\ \E fail \in BOOLEAN : IF fail THEN ReturnsToCaller(p) ELSE Proceeds(p, "save.save")
    /\ UNCHANGED <<adapterVars, apiKey, width, index, rows, resp, hist>>

\* saveEmbedding: this.save(vectorEmbedding), the upsert
ConcurrentSave(p) ==
    /\ pc[p] = "save.save"
    /\ LET tool == ToolCatalog[CallerTool[p]]
           row == saveEmbeddingRow("tool", contentId("weather", tool), call[p].text,
                                   call[p].embedding, toolMetadata("weather", tool),
                                   EMBEDDING_MODEL)
           stored == ~Rejects(width, call[p].embedding)
       IN  /\ ReturnsToCaller(p)
           /\ rows' = IF stored THEN Upsert(rows, row) ELSE rows
           /\ hist' = [op |-> "upsert", caller |-> p, length |-> Length(call[p].embedding),
                       width |-> width, stored |-> stored]
    /\ UNCHANGED <<adapterVars, apiKey, width, index, resp>>

\* the process is up with the database connected and a key configured; the
\* column is vector(1536) with its index; no caller is in the function
InitConcurrent ==
    /\ enabled = TRUE
    /\ migrationCompleted = TRUE
    /\ dbGroups = Empty
    /\ connected = TRUE
    /\ dbServers = MigratedServers
    /\ fileServers = ToolServers
    /\ dbUsers = Empty
    /\ fileUsers = Empty
    /\ dbMarket = {"market-fetch"}
    /\ ret = NoCall
    /\ lastDbAdd = None
    /\ apiKey = TRUE
    /\ width = EMBEDDING_DIMENSIONS
    /\ index = "ivfflat"
    /\ rows = {}
    /\ pc = [p \in Callers |-> "idle"]
    /\ call = [p \in Callers |-> [text |-> <<>>, embedding |-> NoVector]]
    /\ resp = NoResp
    /\ hist = NoUpsert

NextConcurrent ==
    \/ \E p \in Callers : ConcurrentIngest(p)
    \/ \E p \in Callers : ConcurrentEmbed(p)
    \/ \E p \in Callers : ConcurrentCheck(p)
    \/ \E p \in Callers : ConcurrentDrop(p)
    \/ \E p \in Callers : ConcurrentAlter(p)
    \/ \E p \in Callers : ConcurrentCreate(p)
    \/ \E p \in Callers : ConcurrentFind(p)
    \/ \E p \in Callers : ConcurrentSave(p)

SpecConcurrent == InitConcurrent /\ [][NextConcurrent]_vars

\* C34: under any interleaving of concurrent ingest calls, whose vectors
\* may have different lengths, at the moment each upsert is issued the
\* column's configured width equals the length of the vector being
\* upserted: no upsert executes against a width changed by another call.
C34_UpsertMeetsItsWidth == hist.op = "upsert" => hist.width = hist.length

----------------------------------------------------------------------------
(* Claims about writes of the adapter (SpecAdapter) *)

\* C35: a create that the database repository rejects for a business reason
\* creates nothing. With the flag on and the database connected, createUser
\* with a username that is already in the database returns null and adds
\* no record to the database and none to the file-backed store (the
\* file-backed store itself not failing).
C35_RejectedCreateCreatesNothing ==
    [][ (/\ ret'.op = "createUser"
         /\ shouldUseDatabase /\ connected
         /\ ret'.arg.username \in DOMAIN dbUsers
         /\ ~ret'.fileThrew)
        => (/\ ~ret'.threw
            /\ ret'.value = Null
            /\ dbUsers' = dbUsers
            /\ fileUsers' = fileUsers) ]_vars

\* the writes of the adapter
WriteOps ==
    {"addServer", "updateMcpServer", "removeServer", "toggleServerStatus", "createUser",
     "updateUserPassword"}

\* C36: every adapter write applies its effect to one backend per call. With
\* the flag on, a call whose database attempt completes without throwing is
\* answered by the database and leaves the file store unchanged, and a call
\* whose database attempt throws is answered by the file store and leaves
\* the database unchanged; with the flag off the database is unchanged; no
\* call modifies both.
C36_WriteTouchesOneBackend ==
    [][ (ret'.op \in WriteOps) =>
            LET dbChanged == dbServers' # dbServers \/ dbUsers' # dbUsers
                fileChanged == fileServers' # fileServers \/ fileUsers' # fileUsers
            IN  /\ ~(dbChanged /\ fileChanged)
                /\ (ret'.flag /\ ~ret'.dbThrew) => (ret'.route = "db" /\ ~fileChanged)
                /\ (ret'.flag /\ ret'.dbThrew) => (ret'.route = "fallback" /\ ~dbChanged)
                /\ (~ret'.flag) => (ret'.route = "file" /\ ~dbChanged) ]_vars

\* an addServer whose database attempt threw added the server to the file
\* store, and the database does not hold it
C36_Witness ==
    /\ ret.op = "addServer" /\ ret.flag /\ ret.dbThrew /\ ret.route = "fallback"
    /\ ~ret.threw /\ ret.value.success
    /\ ret.arg.name \in DOMAIN fileServers
    /\ ret.arg.name \notin DOMAIN dbServers
    /\ dbUsers # Empty

----------------------------------------------------------------------------
(* Claims about a failed reconciliation (SpecVector) *)

\* C37: a failed schema reconciliation is all-or-nothing for the schema. If
\* checkDatabaseVectorDimensions throws at any step (the catalog query, the
\* index drop, the column alteration or the index creation), the column's
\* configured width and the presence of its index are what they were when
\* the call was entered.
C37_FailedReconciliationChangesNothing ==
    hist.recon.outcome = "error" =>
        /\ width = hist.recon.entered.width
        /\ (index = "none") <=> (hist.recon.entered.index = "none")

----------------------------------------------------------------------------
(* Claims about routing after the module's start-up (SpecMigration) *)

\* initializeDbModule has returned, with true or with false
ModuleReturned(r, success) == r.op = "initializeDbModule" /\ r.success = success

\* C38: database routing follows module initialization. An adapter call
\* made after initializeDbModule returned false (the flag off, the
\* connection failed, or the first-run migration failed) does not attempt
\* the database-backed repository; and initializeDbModule returns true only
\* when the connection is established and the migration either was
\* completed already (as the call read the flag, or by now) or succeeded in
\* this call, the file's records being in the database.
C38_RoutingFollowsInitialization ==
    [][ /\ (ModuleReturned(ret, FALSE) /\ ret'.op = "createUser") => ret'.route = "file"
        /\ (pc = "module.connect" /\ ModuleReturned(ret', TRUE))
              => /\ connected'
                 /\ \/ call.dbConfig.migrationCompleted
                    \/ migrationCompleted
                    \/ Copied(dbUsers', dbServers', dbGroups', dbMarket') ]_vars

====
